---- MODULE Spec2Model ----
(***************************************************************************)
(* Model of WdRiscv::Memory (src/Memory.hpp): the typed access API, the    *)
(* per-hart last-write recorder and the LR/SC reservation table.           *)
(*                                                                         *)
(* The build modelled is the one GNUmakefile produces: FAST_SLOPPY is not  *)
(* defined, so the #else branches of read/write are the code.              *)
(*                                                                         *)
(* Values of type T are little-endian byte sequences of length sizeof(T)   *)
(* (element 1 is the least significant byte): a uint64_t does not fit a    *)
(* TLC integer.  The uint64_t fields of LastWriteData are 8-byte           *)
(* sequences.  The host is little-endian (reinterpret_cast of data_ + a).  *)
(***************************************************************************)
EXTENDS Integers, Sequences, FiniteSets, TLC

VARIABLES
  phase,           \* "config" until finishCcmConfig, then "run"
  pagePmas,        \* pmaMgr_: one Pma per page
  mmrMasks,        \* pmaMgr_: write mask of each memory-mapped word with one
  data,            \* data_[0 .. size_-1]
  behind,          \* the bytes behind data_: -1 until a store reaches them
  lastWriteData,   \* lastWriteData_: one LastWriteData per hart
  reservations,    \* reservations_: one Reservation per hart
  last,            \* the operation applied last, its arguments and result
  pre,             \* data_, lastWriteData_, reservations_ before that operation
  nOps,            \* number of run-time operations applied so far
  recent,          \* per hart: its latest successful write since its slot was
                   \* cleared, and whether the slot was cleared since
                   \* (kept by the operations of SpecLw)
  hartPc,          \* per hart: where its atomic instruction stands
  scWrote,         \* per hart: its store-conditional performed its write
  lrAfter,         \* per hart: the harts whose SC had begun when its LR completed
  scCascaded,      \* per hart: its store-conditional invalidated the other
                   \* harts' reservations after its write
  amoMutex,        \* amoMutex_: the hart holding it, HartCount when free
  lrMutex,         \* lrMutex_: the hart holding it, HartCount when free
  cmdLine,         \* the front-end's command line, as parsing and loading see it
  mainPc,          \* where main stands
  exitCode,        \* what main returned, -1 before it returns
  instIds,         \* the enumerators of InstId numbered so far
  snapFile,        \* the snapshot file: whether it exists, and its bytes
  snapSaved,       \* the ranges of the save that wrote the file, and data_ then
  snapArgs,        \* the ranges given to the latest snapshot call
  nSnaps,          \* the number of snapshot calls so far
  disass,          \* the "disass a1 a2" command: its arguments, where its loop
                   \* stands, the address it printed last, what it returned
  coreRun,         \* main's core: its pc, stop and to-host addresses, and
                   \* whether applyCmdLineArgs has been applied to it
  checkUnmappedElf_ \* whether loadElfFile refuses a segment in unmapped memory

\* The executor's variables, and all that is not the memory's.
execVars == <<hartPc, scWrote, scCascaded, lrAfter, amoMutex, lrMutex>>

\* The front-end's variables.
feVars == <<cmdLine, mainPc, exitCode>>

\* The snapshot's variables.
snapVars == <<snapFile, snapSaved, snapArgs, nSnaps>>

\* What the stores, the reservations and the configuration of the areas
\* leave alone.
envVars ==
  <<execVars, feVars, instIds, snapVars, disass, coreRun, checkUnmappedElf_>>

vars == <<phase, pagePmas, mmrMasks, data, behind, lastWriteData,
          reservations, last, pre, nOps, recent, envVars>>

----------------------------------------------------------------------------
(* Bounds of the model *)

HartCount == 2
MemWords == 3
PageShift == 2
MaxOps == 2
MaxLwOps == 3

----------------------------------------------------------------------------
(* Geometry *)

size_ == 4 * MemWords

pageSize_ == 2 ^ PageShift

Harts == 0 .. (HartCount - 1)

Widths == {1, 2, 4, 8}

getPageIx(addr) == addr \div pageSize_

PageCount == (size_ + pageSize_ - 1) \div pageSize_

Pages == 0 .. (PageCount - 1)

----------------------------------------------------------------------------
(* Bytes and values *)

Byte == 0 .. 255

RECURSIVE BitAnd(_, _, _)
BitAnd(x, y, n) ==
  IF n = 0 THEN 0
  ELSE (x % 2) * (y % 2) + 2 * BitAnd(x \div 2, y \div 2, n - 1)

ByteAnd(x, y) == BitAnd(x, y, 8)

AllOnes == <<255, 255, 255, 255>>

Zeros(n) == [i \in 1 .. n |-> 0]

\* Conversion of a T to uint64_t: zero extension.
ZeroExt(bytes) == [i \in 1 .. 8 |-> IF i <= Len(bytes) THEN bytes[i] ELSE 0]

\* The bytes right behind data_[size_ - 1], which an access that runs over
\* the end of the array reaches.
BehindAddrs == size_ .. (size_ + 7)

\* *(reinterpret_cast<const T*>(data_ + a)): a byte behind the array reads as
\* what was last stored there, and as junk (any value) when nothing was.
LoadBytes(m, a, n, junk) ==
  [i \in 1 .. n |->
     LET x == a + i - 1
     IN  IF x < size_ THEN m.data[x]
         ELSE IF m.behind[x] >= 0 THEN m.behind[x] ELSE junk]

\* *(reinterpret_cast<T*>(data_ + a)) = value: bytes past data_ + size_ land
\* behind the array.
StoreBytes(m, a, bytes) ==
  LET put(f) == [x \in DOMAIN f |->
                   IF x >= a /\ x < a + Len(bytes) THEN bytes[x - a + 1] ELSE f[x]]
  IN  [m EXCEPT !.data = put(m.data), !.behind = put(m.behind)]

----------------------------------------------------------------------------
(* Physical memory attributes: PmaManager (PmaManager.hpp is not among the  *)
(* sources; modelled from the specification, sections 3 and 4.1).  The     *)
(* attribute bits and their accessors are those of PageAttribs.            *)

NoPma ==
  [read |-> FALSE, write |-> FALSE, exec |-> FALSE,
   reg |-> FALSE, iccm |-> FALSE, dccm |-> FALSE]

DefaultPma ==
  [read |-> TRUE, write |-> TRUE, exec |-> TRUE,
   reg |-> FALSE, iccm |-> FALSE, dccm |-> FALSE]

isRead(pma) == pma.read

isWrite(pma) == pma.write

isExec(pma) == pma.exec

isMemMappedReg(pma) == pma.reg

isMapped(pma) == pma.read \/ pma.write \/ pma.exec

\* get_pma: total; addresses outside the space give an unmapped Pma.
getPma(addr) ==
  IF addr >= 0 /\ addr < size_ THEN pagePmas[getPageIx(addr)] ELSE NoPma

WordAddrs == {w \in 0 .. (size_ - 1) : w % 4 = 0}

\* Mask of the word containing addr; all ones when addr is no memory-mapped
\* register or no mask was defined for its word.
getMemMappedMask(addr) ==
  IF isMemMappedReg(getPma(addr)) THEN mmrMasks[addr - (addr % 4)] ELSE AllOnes

getMemoryMappedMask(addr) == getMemMappedMask(addr)

\* Mutant: the value is stored unmasked.
doRegisterMasking_unmasked(addr, value) == value

doRegisterMasking(addr, value) ==
  LET mask == getMemoryMappedMask(addr)
  IN  [i \in 1 .. 4 |-> ByteAnd(value[i], mask[i])]

\* Mutant: no address counts as misaligned, so no straddle test is made.
Misaligned_never(address, T) == FALSE

\* address & (sizeof(T) - 1), sizeof(T) a power of two
Misaligned(address, T) == address % T # 0

----------------------------------------------------------------------------
(* Memory state handed to the operations: m.data, m.behind, m.lwd, m.res *)

Mem ==
  [data |-> data, behind |-> behind, lwd |-> lastWriteData, res |-> reservations]

NoLastWrite ==
  [size_ |-> 0, addr_ |-> 0, value_ |-> Zeros(8), prevValue_ |-> Zeros(8)]

NoReservation == [addr_ |-> 0, size_ |-> 0, valid_ |-> FALSE]

Failed(m) == [ok |-> FALSE, mem |-> m]

\* lastWriteData_.at(localHartId) of a hart without a slot throws
\* std::out_of_range: the call does not return, the memory is as it was.
Thrown(m) == [ok |-> FALSE, mem |-> m, thrown |-> TRUE]

HasThrown(r) == "thrown" \in DOMAIN r

\* auto& lwd = lastWriteData_.at(localHartId), and what follows it (r).
AtSlot(m, localHartId, r) ==
  IF localHartId \in DOMAIN m.lwd THEN r ELSE Thrown(m)

\* The harts that have a reservation and a last-write slot now.
LiveHarts == DOMAIN lastWriteData

\* reservations_.resize(count); lastWriteData_.resize(count): the slots at
\* and above count are dropped, the slots added are value-initialized.
setHartCount(m, count) ==
  [m EXCEPT
     !.res = [i \in 0 .. (count - 1) |->
                IF i \in DOMAIN m.res THEN m.res[i] ELSE NoReservation],
     !.lwd = [i \in 0 .. (count - 1) |->
                IF i \in DOMAIN m.lwd THEN m.lwd[i] ELSE NoLastWrite]]

----------------------------------------------------------------------------
(* LR/SC reservations *)

\* The test both invalidation loops apply to one reservation.
LrHit(res, addr, storeSize) ==
  \/ (addr >= res.addr_ /\ (addr - res.addr_) < res.size_)
  \/ (addr < res.addr_ /\ (res.addr_ - addr) < storeSize)

\* Mutant: only the first test of the loop (addr inside the reservation).
invalidateOtherHartLr_firstTestOnly(m, localHartId, addr, storeSize) ==
  [m EXCEPT !.res =
     [i \in DOMAIN m.res |->
        IF i = localHartId THEN m.res[i]
        ELSE IF addr >= m.res[i].addr_ /\ (addr - m.res[i].addr_) < m.res[i].size_
               THEN [m.res[i] EXCEPT !.valid_ = FALSE]
        ELSE m.res[i]]]

\* Mutant: a store that ends right where the reservation starts counts too
\* (<= for < in the second test).
invalidateOtherHartLr_touching(m, localHartId, addr, storeSize) ==
  [m EXCEPT !.res =
     [i \in DOMAIN m.res |->
        IF i = localHartId THEN m.res[i]
        ELSE IF \/ (addr >= m.res[i].addr_ /\ (addr - m.res[i].addr_) < m.res[i].size_)
                \/ (addr < m.res[i].addr_ /\ (m.res[i].addr_ - addr) <= storeSize)
               THEN [m.res[i] EXCEPT !.valid_ = FALSE]
        ELSE m.res[i]]]

\* Mutant: the hart test is inverted, only the storing hart's own
\* reservation is looked at.
invalidateOtherHartLr_onlyOwn(m, localHartId, addr, storeSize) ==
  [m EXCEPT !.res =
     [i \in DOMAIN m.res |->
        IF i # localHartId THEN m.res[i]
        ELSE IF LrHit(m.res[i], addr, storeSize)
               THEN [m.res[i] EXCEPT !.valid_ = FALSE]
        ELSE m.res[i]]]

invalidateOtherHartLr(m, localHartId, addr, storeSize) ==
  [m EXCEPT !.res =
     [i \in DOMAIN m.res |->
        IF i = localHartId THEN m.res[i]
        ELSE IF LrHit(m.res[i], addr, storeSize)
               THEN [m.res[i] EXCEPT !.valid_ = FALSE]
        ELSE m.res[i]]]

\* Mutant: the loop of invalidateOtherHartLr, skipping hart 0.
invalidateLrs_skipsHart0(m, addr, storeSize) ==
  [m EXCEPT !.res =
     [i \in DOMAIN m.res |->
        IF i = 0 THEN m.res[i]
        ELSE IF LrHit(m.res[i], addr, storeSize)
               THEN [m.res[i] EXCEPT !.valid_ = FALSE]
        ELSE m.res[i]]]

\* Mutant: only the first test of the loop (addr inside the reservation),
\* for every hart.
invalidateLrs_firstTestOnly(m, addr, storeSize) ==
  [m EXCEPT !.res =
     [i \in DOMAIN m.res |->
        IF addr >= m.res[i].addr_ /\ (addr - m.res[i].addr_) < m.res[i].size_
          THEN [m.res[i] EXCEPT !.valid_ = FALSE]
          ELSE m.res[i]]]

invalidateLrs(m, addr, storeSize) ==
  [m EXCEPT !.res =
     [i \in DOMAIN m.res |->
        IF LrHit(m.res[i], addr, storeSize)
          THEN [m.res[i] EXCEPT !.valid_ = FALSE]
          ELSE m.res[i]]]

\* Mutant: the whole slot is reset, address and size with the flag.
invalidateLr_resetsSlot(m, localHartId) ==
  [m EXCEPT !.res[localHartId] = NoReservation]

invalidateLr(m, localHartId) ==
  [m EXCEPT !.res[localHartId].valid_ = FALSE]

\* Mutant: a hart that holds a valid reservation keeps it.
makeLr_keepsPrior(m, localHartId, addr, size) ==
  IF m.res[localHartId].valid_ THEN m
  ELSE [m EXCEPT !.res[localHartId] =
          [addr_ |-> addr, size_ |-> size, valid_ |-> TRUE]]

makeLr(m, localHartId, addr, size) ==
  [m EXCEPT !.res[localHartId] =
     [addr_ |-> addr, size_ |-> size, valid_ |-> TRUE]]

\* Mutant: any address inside the reserved range counts.
hasLr_inRange(m, localHartId, addr) ==
  /\ m.res[localHartId].valid_
  /\ m.res[localHartId].addr_ <= addr
  /\ addr < m.res[localHartId].addr_ + m.res[localHartId].size_

hasLr(m, localHartId, addr) ==
  m.res[localHartId].valid_ /\ m.res[localHartId].addr_ = addr

----------------------------------------------------------------------------
(* Reads *)

\* Mutant: the register is read at any alignment.
readRegister_anyAlignment(m, addr, junk) ==
  [ok |-> TRUE, value |-> LoadBytes(m, addr, 4, junk)]

readRegister(m, addr, junk) ==
  IF addr % 4 # 0
    THEN [ok |-> FALSE, value |-> << >>]
    ELSE [ok |-> TRUE, value |-> LoadBytes(m, addr, 4, junk)]

\* read<T>: value is << >> when the read fails (the caller's value is left
\* as it was).
read(m, address, T, junk) ==
  LET pma1 == getPma(address)
      pma2 == getPma(address + T - 1)
      no   == [ok |-> FALSE, value |-> << >>]
  IN  IF ~isRead(pma1) THEN no
      ELSE IF Misaligned(address, T) /\ pma1 # pma2 THEN no
      ELSE IF isMemMappedReg(pma1)
             THEN IF T = 4 THEN readRegister(m, address, junk) ELSE no
      ELSE [ok |-> TRUE, value |-> LoadBytes(m, address, T, junk)]

readByte(m, address) ==
  LET pma == getPma(address)
      no  == [ok |-> FALSE, value |-> << >>]
  IN  IF ~isRead(pma) THEN no
      ELSE IF isMemMappedReg(pma) THEN no
      ELSE [ok |-> TRUE, value |-> <<m.data[address]>>]

\* Mutant: the fetch is gated by the read attribute, as a data read is.
readInstHalfWord_gatedByRead(m, address) ==
  LET pma  == getPma(address)
      pma2 == getPma(address + 1)
      no   == [ok |-> FALSE, value |-> << >>]
  IN  IF ~isRead(pma) THEN no
      ELSE IF address % 2 # 0 /\ pma # pma2 THEN no
      ELSE [ok |-> TRUE, value |-> LoadBytes(m, address, 2, 0)]

\* readInstHalfWord: gated by exec; a misaligned fetch asks that the PMA of
\* address + 1 equal that of address.
readInstHalfWord(m, address) ==
  LET pma  == getPma(address)
      pma2 == getPma(address + 1)
      no   == [ok |-> FALSE, value |-> << >>]
  IN  IF ~isExec(pma) THEN no
      ELSE IF address % 2 # 0 /\ pma # pma2 THEN no
      ELSE [ok |-> TRUE, value |-> LoadBytes(m, address, 2, 0)]

\* readInstWord: as readInstHalfWord, with address & 3 and address + 3.
readInstWord(m, address) ==
  LET pma  == getPma(address)
      pma2 == getPma(address + 3)
      no   == [ok |-> FALSE, value |-> << >>]
  IN  IF ~isExec(pma) THEN no
      ELSE IF address % 4 # 0 /\ pma # pma2 THEN no
      ELSE [ok |-> TRUE, value |-> LoadBytes(m, address, 4, 0)]

----------------------------------------------------------------------------
(* Writes *)

\* Mutant: the store also invalidates every reservation it overlaps, the
\* writing hart's included.
RecordAndStore_invalidatingLrs(m, localHartId, address, T, value, junk) ==
  LET lwd == [prevValue_ |-> ZeroExt(LoadBytes(m, address, T, junk)),
              size_ |-> T, addr_ |-> address, value_ |-> ZeroExt(value)]
  IN  [ok |-> TRUE,
       mem |-> invalidateLrs(
                [StoreBytes(m, address, value) EXCEPT !.lwd[localHartId] = lwd],
                address, T)]

\* Mutant: value_ and prevValue_ exchanged.
RecordAndStore_swapped(m, localHartId, address, T, value, junk) ==
  LET lwd == [prevValue_ |-> ZeroExt(value),
              size_ |-> T, addr_ |-> address,
              value_ |-> ZeroExt(LoadBytes(m, address, T, junk))]
  IN  [ok |-> TRUE,
       mem |-> [StoreBytes(m, address, value) EXCEPT !.lwd[localHartId] = lwd]]

\* Mutant: a slot that holds a write keeps it (the first write since the
\* clear is the one reported).
RecordAndStore_keepsFirst(m, localHartId, address, T, value, junk) ==
  LET lwd == [prevValue_ |-> ZeroExt(LoadBytes(m, address, T, junk)),
              size_ |-> T, addr_ |-> address, value_ |-> ZeroExt(value)]
  IN  [ok |-> TRUE,
       mem |-> [StoreBytes(m, address, value) EXCEPT
                  !.lwd[localHartId] =
                     IF m.lwd[localHartId].size_ # 0
                       THEN m.lwd[localHartId] ELSE lwd]]

\* Mutant: one slot for all harts, the write is recorded in every hart's.
RecordAndStore_allSlots(m, localHartId, address, T, value, junk) ==
  LET lwd == [prevValue_ |-> ZeroExt(LoadBytes(m, address, T, junk)),
              size_ |-> T, addr_ |-> address, value_ |-> ZeroExt(value)]
  IN  [ok |-> TRUE,
       mem |-> [StoreBytes(m, address, value) EXCEPT
                  !.lwd = [i \in DOMAIN m.lwd |-> lwd]]]

\* The successful end of write, writeByte and writeRegister: the hart's slot
\* takes the bytes found at address (prevValue_), the width, the address and
\* the stored value; then the value is stored.
RecordAndStore(m, localHartId, address, T, value, junk) ==
  LET lwd == [prevValue_ |-> ZeroExt(LoadBytes(m, address, T, junk)),
              size_ |-> T, addr_ |-> address, value_ |-> ZeroExt(value)]
  IN  [ok |-> TRUE,
       mem |-> [StoreBytes(m, address, value) EXCEPT !.lwd[localHartId] = lwd]]

\* Mutant: the alignment test comes after the slot and the word are updated.
writeRegister_testsLate(m, localHartId, addr, value, junk) ==
  LET done == RecordAndStore(m, localHartId, addr, 4,
                             doRegisterMasking(addr, value), junk)
  IN  AtSlot(m, localHartId,
             IF addr % 4 # 0 THEN [ok |-> FALSE, mem |-> done.mem] ELSE done)

\* Mutant: the slot records the width of its value_ field, 8 bytes.
writeRegister_recordsSize8(m, localHartId, addr, value, junk) ==
  LET done == RecordAndStore(m, localHartId, addr, 4,
                             doRegisterMasking(addr, value), junk)
  IN  IF addr % 4 # 0 THEN Failed(m)
      ELSE AtSlot(m, localHartId,
                  [done EXCEPT !.mem.lwd[localHartId].size_ = 8])

\* Mutant: the slot records the value as given, before masking.
writeRegister_recordsUnmasked(m, localHartId, addr, value, junk) ==
  LET done == RecordAndStore(m, localHartId, addr, 4,
                             doRegisterMasking(addr, value), junk)
  IN  IF addr % 4 # 0 THEN Failed(m)
      ELSE AtSlot(m, localHartId,
                  [done EXCEPT !.mem.lwd[localHartId].value_ = ZeroExt(value)])

writeRegister(m, localHartId, addr, value, junk) ==
  IF addr % 4 # 0 THEN Failed(m)
  ELSE AtSlot(m, localHartId,
              RecordAndStore(m, localHartId, addr, 4,
                             doRegisterMasking(addr, value), junk))

\* write<T>: on success the hart's last-write slot and the bytes at address
\* change; reservations_ is not touched.  The hart's slot is looked up after
\* the tests of the attributes, the straddle and the register width.
write(m, localHartId, address, T, value, junk) ==
  LET pma1 == getPma(address)
      pma2 == getPma(address + T - 1)
  IN  IF ~isWrite(pma1) THEN Failed(m)
      ELSE IF Misaligned(address, T) /\ pma1 # pma2 THEN Failed(m)
      ELSE IF isMemMappedReg(pma1)
             THEN IF T # 4 THEN Failed(m)
                  ELSE writeRegister(m, localHartId, address, value, junk)
      ELSE AtSlot(m, localHartId,
                  RecordAndStore(m, localHartId, address, T, value, junk))

\* Mutant: no test for a register page, the byte is stored there too.
writeByte_intoRegisters(m, localHartId, address, value) ==
  LET pma == getPma(address)
  IN  IF ~isWrite(pma) THEN Failed(m)
      ELSE AtSlot(m, localHartId,
                  RecordAndStore(m, localHartId, address, 1, value, 0))

writeByte(m, localHartId, address, value) ==
  LET pma == getPma(address)
  IN  IF ~isWrite(pma) THEN Failed(m)
      ELSE IF isMemMappedReg(pma) THEN Failed(m)
      ELSE AtSlot(m, localHartId,
                  RecordAndStore(m, localHartId, address, 1, value, 0))

\* Mutant: no word-alignment test on a register page.
checkWrite_noWordTest(m, address, T, value) ==
  LET pma1 == getPma(address)
      pma2 == getPma(address + T - 1)
      no   == [ok |-> FALSE, value |-> value, mem |-> m]
  IN  IF ~isWrite(pma1) THEN no
      ELSE IF Misaligned(address, T) /\ pma1 # pma2 THEN no
      ELSE IF isMemMappedReg(pma1)
             THEN IF T # 4 THEN no
                  ELSE [ok |-> TRUE, value |-> doRegisterMasking(address, value),
                        mem |-> m]
      ELSE [ok |-> TRUE, value |-> value, mem |-> m]

\* Mutant: a check that succeeds stores the value, as write does.
checkWrite_storing(m, address, T, value) ==
  LET pma1 == getPma(address)
      pma2 == getPma(address + T - 1)
      no   == [ok |-> FALSE, value |-> value, mem |-> m]
  IN  IF ~isWrite(pma1) THEN no
      ELSE IF Misaligned(address, T) /\ pma1 # pma2 THEN no
      ELSE IF isMemMappedReg(pma1)
             THEN IF T # 4 THEN no
                  ELSE IF address % 4 # 0 THEN no
                  ELSE [ok |-> TRUE, value |-> doRegisterMasking(address, value),
                        mem |-> StoreBytes(m, address,
                                           doRegisterMasking(address, value))]
      ELSE [ok |-> TRUE, value |-> value, mem |-> StoreBytes(m, address, value)]

\* checkWrite<T>: value is the caller's value after the call, mem the memory
\* after it (no member is assigned).
checkWrite(m, address, T, value) ==
  LET pma1 == getPma(address)
      pma2 == getPma(address + T - 1)
      no   == [ok |-> FALSE, value |-> value, mem |-> m]
  IN  IF ~isWrite(pma1) THEN no
      ELSE IF Misaligned(address, T) /\ pma1 # pma2 THEN no
      ELSE IF isMemMappedReg(pma1)
             THEN IF T # 4 THEN no
                  ELSE IF address % 4 # 0 THEN no
                  ELSE [ok |-> TRUE, value |-> doRegisterMasking(address, value),
                        mem |-> m]
      ELSE [ok |-> TRUE, value |-> value, mem |-> m]

----------------------------------------------------------------------------
(* Pokes *)

\* Mutant: poke with the straddle test of write (pma1 != pma2).
poke_straddleTested(m, address, T, value) ==
  LET pma1 == getPma(address)
      pma2 == getPma(address + T - 1)
      stored == IF isMemMappedReg(pma1)
                  THEN doRegisterMasking(address, value) ELSE value
  IN  IF ~isMapped(pma1) THEN Failed(m)
      ELSE IF Misaligned(address, T) /\ pma1 # pma2 THEN Failed(m)
      ELSE IF isMemMappedReg(pma1) /\ T # 4 THEN Failed(m)
      ELSE IF isMemMappedReg(pma1) /\ address % 4 # 0 THEN Failed(m)
      ELSE [ok |-> TRUE, mem |-> StoreBytes(m, address, stored)]

\* Mutant: poke gated by the write attribute, as write is.
poke_needsWrite(m, address, T, value) ==
  LET pma1 == getPma(address)
      pma2 == getPma(address + T - 1)
      stored == IF isMemMappedReg(pma1)
                  THEN doRegisterMasking(address, value) ELSE value
  IN  IF ~isWrite(pma1) THEN Failed(m)
      ELSE IF Misaligned(address, T) /\ ~isMapped(pma2) THEN Failed(m)
      ELSE IF isMemMappedReg(pma1) /\ T # 4 THEN Failed(m)
      ELSE IF isMemMappedReg(pma1) /\ address % 4 # 0 THEN Failed(m)
      ELSE [ok |-> TRUE, mem |-> StoreBytes(m, address, stored)]

\* poke<T>: the misaligned case asks only that the last byte be mapped;
\* nothing is recorded in lastWriteData_ and reservations_ is not touched.
poke(m, address, T, value) ==
  LET pma1 == getPma(address)
      pma2 == getPma(address + T - 1)
      stored == IF isMemMappedReg(pma1)
                  THEN doRegisterMasking(address, value) ELSE value
  IN  IF ~isMapped(pma1) THEN Failed(m)
      ELSE IF Misaligned(address, T) /\ ~isMapped(pma2) THEN Failed(m)
      ELSE IF isMemMappedReg(pma1) /\ T # 4 THEN Failed(m)
      ELSE IF isMemMappedReg(pma1) /\ address % 4 # 0 THEN Failed(m)
      ELSE [ok |-> TRUE, mem |-> StoreBytes(m, address, stored)]

\* Mutant: the poked byte is recorded in hart 0's last-write slot, as
\* writeByte records it.
pokeByte_recording(m, address, value) ==
  LET pma == getPma(address)
  IN  IF ~isMapped(pma) THEN Failed(m)
      ELSE IF isMemMappedReg(pma) THEN Failed(m)
      ELSE RecordAndStore(m, 0, address, 1, value, 0)

pokeByte(m, address, value) ==
  LET pma == getPma(address)
  IN  IF ~isMapped(pma) THEN Failed(m)
      ELSE IF isMemMappedReg(pma) THEN Failed(m)
      ELSE [ok |-> TRUE, mem |-> StoreBytes(m, address, value)]

----------------------------------------------------------------------------
(* The image loaders and copy (Memory.cpp is not among the sources; the    *)
(* loaders are modelled from the specification, section 4.6, copy from its  *)
(* declaration).  A hex file is its tokens in order, an "@address" token   *)
(* or a byte; an ELF file is its class, its entry point and its loadable   *)
(* segments in order.  The symbols of an ELF file are left out.  The files *)
(* loaded here keep within the bounds of the memory.                       *)

\* The byte is stored whatever the attributes of its page.
writeByteNoAccessCheck(m, address, value) ==
  IF address >= size_ THEN Failed(m)
  ELSE [ok |-> TRUE, mem |-> StoreBytes(m, address, <<value>>)]

RECURSIVE HexTokens(_, _, _, _)
HexTokens(m, tokens, i, address) ==
  IF i > Len(tokens) THEN m
  ELSE IF tokens[i].at THEN HexTokens(m, tokens, i + 1, tokens[i].value)
  ELSE HexTokens(writeByteNoAccessCheck(m, address, tokens[i].value).mem,
                 tokens, i + 1, address + 1)

loadHexFile(m, file) ==
  IF ~file.exists THEN Failed(m)
  ELSE [ok |-> TRUE, mem |-> HexTokens(m, file.tokens, 1, 0)]

NoImage(m) == [ok |-> FALSE, mem |-> m, entryPoint |-> 0, end |-> 0]

SegmentAddrs(seg) == seg.vaddr .. (seg.vaddr + Len(seg.bytes) - 1)

RECURSIVE ElfSegments(_, _, _, _, _)
ElfSegments(m, file, i, check, end) ==
  IF i > Len(file.segments)
    THEN [ok |-> TRUE, mem |-> m, entryPoint |-> file.entry, end |-> end]
  ELSE LET seg  == file.segments[i]
           segEnd == seg.vaddr + Len(seg.bytes)
       IN  IF check /\ \E a \in SegmentAddrs(seg) : ~isMapped(getPma(a))
             THEN NoImage(m)
           ELSE ElfSegments(StoreBytes(m, seg.vaddr, seg.bytes), file, i + 1,
                            check, IF segEnd > end THEN segEnd ELSE end)

\* check is checkUnmappedElf_.
loadElfFile(m, file, registerWidth, check) ==
  IF ~file.exists \/ file.class # registerWidth THEN NoImage(m)
  ELSE ElfSegments(m, file, 1, check, 0)

\* copy: the first n bytes of the other memory, n the smaller of the sizes.
copy(m, other) ==
  [m EXCEPT !.data = [a \in DOMAIN m.data |->
                        IF a < Len(other) THEN other[a + 1] ELSE m.data[a]]]

----------------------------------------------------------------------------
(* Last-write recorder.  addr0 and value0 are what the caller's addr and    *)
(* value hold before the call; the result is the returned size and what    *)
(* they hold after it.                                                     *)

getLastWriteNewValue(m, localHartId, addr0, value0) ==
  LET lwd == m.lwd[localHartId]
  IN  IF lwd.size_ # 0
        THEN [size |-> lwd.size_, addr |-> lwd.addr_, value |-> lwd.value_]
        ELSE [size |-> 0, addr |-> addr0, value |-> value0]

\* As in the source: value is set from lwd.value_.
getLastWriteOldValue(m, localHartId, addr0, value0) ==
  LET lwd == m.lwd[localHartId]
  IN  IF lwd.size_ # 0
        THEN [size |-> lwd.size_, addr |-> lwd.addr_, value |-> lwd.value_]
        ELSE [size |-> 0, addr |-> addr0, value |-> value0]

\* Mutant: the clear zeroes the recorded value and leaves the size.
clearLastWriteInfo_keepsSize(m, localHartId) ==
  [m EXCEPT !.lwd[localHartId].value_ = Zeros(8)]

clearLastWriteInfo(m, localHartId) ==
  [m EXCEPT !.lwd[localHartId].size_ = 0]

----------------------------------------------------------------------------
(* Configuration (Memory.cpp is not among the sources; modelled from the    *)
(* specification, section 4.1): areas are page-aligned, lie in the memory  *)
(* and claim no page a CCM or MMR area already holds.                      *)

DccmPma ==
  [read |-> TRUE, write |-> TRUE, exec |-> FALSE,
   reg |-> FALSE, iccm |-> FALSE, dccm |-> TRUE]

MmrPma ==
  [read |-> TRUE, write |-> TRUE, exec |-> FALSE,
   reg |-> TRUE, iccm |-> FALSE, dccm |-> FALSE]

\* ICCM: executable and readable; writable only when the configuration is
\* finished with iccmRw.
IccmPma ==
  [read |-> TRUE, write |-> FALSE, exec |-> TRUE,
   reg |-> FALSE, iccm |-> TRUE, dccm |-> FALSE]

AreaPages(addr, size) == {p \in Pages : getPageIx(addr) <= p /\ p <= getPageIx(addr + size - 1)}

checkCcmConfig(addr, size) ==
  /\ size > 0
  /\ addr % pageSize_ = 0
  /\ size % pageSize_ = 0
  /\ addr + size <= size_

\* Mutant: only ICCM and DCCM pages count as claimed, register pages do not.
checkCcmOverlap_ccmOnly(addr, size) ==
  \A p \in AreaPages(addr, size) : ~pagePmas[p].iccm /\ ~pagePmas[p].dccm

checkCcmOverlap(addr, size) ==
  \A p \in AreaPages(addr, size) :
     ~pagePmas[p].iccm /\ ~pagePmas[p].dccm /\ ~pagePmas[p].reg

\* The areas and the mask the configuration steps are tried with.
\* A DCCM of one page and a register area from the second page to the end of
\* the memory: both claim the second page.
DccmAreas == {[addr |-> pageSize_, size |-> pageSize_]}

MmrAreas == {[addr |-> pageSize_, size |-> size_ - pageSize_]}

MmrMaskDefs == {[addr |-> pageSize_, mask |-> <<255, 255, 0, 0>>]}

\* An ICCM of one page, the first.
IccmAreas == {[addr |-> 0, size |-> pageSize_]}

DefineIccm(addr, size) ==
  /\ phase = "config"
  /\ checkCcmConfig(addr, size) /\ checkCcmOverlap(addr, size)
  /\ pagePmas' = [p \in Pages |->
                    IF p \in AreaPages(addr, size)
                      THEN [pagePmas[p] EXCEPT !.read = IccmPma.read,
                                               !.write = IccmPma.write,
                                               !.exec = IccmPma.exec,
                                               !.iccm = TRUE]
                      ELSE pagePmas[p]]
  /\ UNCHANGED <<phase, mmrMasks, data, behind, lastWriteData, reservations, last, pre, nOps, recent, envVars>>

DefineDccm(addr, size) ==
  /\ phase = "config"
  /\ checkCcmConfig(addr, size) /\ checkCcmOverlap(addr, size)
  /\ pagePmas' = [p \in Pages |->
                    IF p \in AreaPages(addr, size)
                      THEN [pagePmas[p] EXCEPT !.read = DccmPma.read,
                                               !.write = DccmPma.write,
                                               !.exec = DccmPma.exec,
                                               !.dccm = TRUE]
                      ELSE pagePmas[p]]
  /\ UNCHANGED <<phase, mmrMasks, data, behind, lastWriteData, reservations, last, pre, nOps, recent, envVars>>

DefineMemoryMappedRegisterArea(addr, size) ==
  /\ phase = "config"
  /\ checkCcmConfig(addr, size) /\ checkCcmOverlap(addr, size)
  /\ pagePmas' = [p \in Pages |->
                    IF p \in AreaPages(addr, size)
                      THEN [pagePmas[p] EXCEPT !.read = MmrPma.read,
                                               !.write = MmrPma.write,
                                               !.exec = MmrPma.exec,
                                               !.reg = TRUE]
                      ELSE pagePmas[p]]
  /\ UNCHANGED <<phase, mmrMasks, data, behind, lastWriteData, reservations, last, pre, nOps, recent, envVars>>

DefineMemoryMappedRegisterWriteMask(addr, mask) ==
  /\ phase = "config"
  /\ addr % 4 = 0
  /\ isMemMappedReg(getPma(addr))
  /\ mmrMasks' = [mmrMasks EXCEPT ![addr] = mask]
  /\ UNCHANGED <<phase, pagePmas, data, behind, lastWriteData, reservations, last, pre, nOps, recent, envVars>>

\* finishCcmConfig seals the map; with iccmRw the ICCM pages become writable.
FinishCcmConfig(iccmRw) ==
  /\ phase = "config"
  /\ phase' = "run"
  /\ pagePmas' = [p \in Pages |->
                    IF iccmRw /\ pagePmas[p].iccm
                      THEN [pagePmas[p] EXCEPT !.read = TRUE, !.write = TRUE]
                      ELSE pagePmas[p]]
  /\ UNCHANGED <<mmrMasks, data, behind, lastWriteData, reservations, last, pre, nOps, recent, envVars>>

----------------------------------------------------------------------------
(* Inputs of the run-time operations *)

\* size_ is the first address out of bounds.
Addrs == 0 .. size_

\* The accesses the operations are tried with: every width at the first byte
\* of a page (and at size_), 2 and 4 bytes at the second byte of a page,
\* 2 bytes at the last byte of a page.
Accesses ==
  {s \in [addr : Addrs, size : Widths] :
     LET o == s.addr % pageSize_
     IN  \/ o = 0
         \/ (o = 1 /\ s.size \in {2, 4})
         \/ (o = pageSize_ - 1 /\ s.size = 2)}

ByteAddrs == {a \in Addrs : a % pageSize_ = 0}

Pattern == <<187, 187, 170, 170, 85, 102, 119, 136>>

Value(T) == SubSeq(Pattern, 1, T)

\* What a load finds behind the end of data_ where nothing was stored yet.
Junk == {0, 255}

JunkFor(a, T) == IF a + T > size_ THEN Junk ELSE {0}

LrAddrs == {a \in WordAddrs : a % pageSize_ = 0}

LrSizes == {4, 8}

NoRecent == [size |-> 0, addr |-> 0, value |-> Zeros(8), cleared |-> FALSE]

\* What the loader finds when no ELF file loads.
NoElf ==
  [entryPoint |-> 0, exitPoint |-> 0, elfHasToHost |-> FALSE, elfToHost |-> 0]

\* struct Args as constructed: no --tohost, --startpc or --endpc.
NoNumbers ==
  [hasToHost |-> FALSE, toHost |-> 0, hasStartPc |-> FALSE, startPc |-> 0,
   hasEndPc |-> FALSE, endPc |-> 0]

NoCmdLine ==
  [exception |-> FALSE, help |-> FALSE, badNumber |-> FALSE,
   elfFile |-> "none", hexFile |-> "none", regInits |-> << >>,
   codes |-> << >>, interactive |-> FALSE, traceFile |-> "none",
   hasToHost |-> FALSE, toHost |-> 0, hasStartPc |-> FALSE, startPc |-> 0,
   hasEndPc |-> FALSE, endPc |-> 0,
   entryPoint |-> 0, exitPoint |-> 0, elfHasToHost |-> FALSE, elfToHost |-> 0]

NoDisass ==
  [pc |-> "none", addr1 |-> 0, addr2 |-> 0, addr |-> 0, printed |-> -1,
   ok |-> FALSE]

\* The core before the command line is applied: no stop and no to-host
\* address.
NoCore ==
  [pc |-> 0, hasStop |-> FALSE, stopAddr |-> 0, hasToHost |-> FALSE, toHost |-> 0]

NoOp ==
  [op |-> "none", hart |-> HartCount, addr |-> 0, size |-> 0,
   value |-> << >>, junk |-> 0, ok |-> FALSE]

Init ==
  /\ phase = "config"
  /\ pagePmas = [p \in Pages |-> DefaultPma]
  /\ mmrMasks = [w \in WordAddrs |-> AllOnes]
  /\ data = [a \in 0 .. (size_ - 1) |-> 0]
  /\ behind = [a \in BehindAddrs |-> -1]
  /\ lastWriteData = [h \in Harts |-> NoLastWrite]
  /\ reservations = [h \in Harts |-> NoReservation]
  /\ last = NoOp
  /\ pre = Mem
  /\ nOps = 0
  /\ recent = [h \in Harts |-> NoRecent]
  /\ hartPc = [h \in Harts |-> "idle"]
  /\ scWrote = [h \in Harts |-> FALSE]
  /\ lrAfter = [h \in Harts |-> {}]
  /\ scCascaded = [h \in Harts |-> FALSE]
  /\ amoMutex = HartCount
  /\ lrMutex = HartCount
  /\ cmdLine = NoCmdLine
  /\ mainPc = "none"
  /\ exitCode = -1
  /\ instIds = << >>
  /\ snapFile = [exists |-> FALSE, bytes |-> << >>]
  /\ snapSaved = [valid |-> FALSE, ranges |-> << >>, data |-> data]
  /\ snapArgs = << >>
  /\ nSnaps = 0
  /\ disass = NoDisass
  /\ coreRun = [applied |-> FALSE, core |-> NoCore]
  /\ checkUnmappedElf_ = TRUE

\* What the operation makes of the record of the harts' latest writes: a
\* successful write or writeByte by h is h's latest, with the bytes it left
\* at its address; clearLastWriteInfo(h) forgets h's.
Recorded(op, h, a, sz, r) ==
  IF op \in {"write", "writeByte"} /\ r.ok
    THEN [recent EXCEPT ![h] = [size |-> sz, addr |-> a,
                                value |-> ZeroExt(LoadBytes(r.mem, a, sz, 0)),
                                cleared |-> FALSE]]
  ELSE IF op = "clearLastWriteInfo"
    THEN [recent EXCEPT ![h] = [NoRecent EXCEPT !.cleared = TRUE]]
  ELSE recent

\* One run-time operation, of at most max: result is what it returns and the
\* memory it leaves, [ok, mem].  An operation that throws is no step.
Step(max, op, h, a, sz, v, junk, result) ==
  /\ phase = "run"
  /\ nOps < max
  /\ \E r \in {result} :
       /\ ~HasThrown(r)
       /\ nOps' = nOps + 1
       /\ pre' = Mem
       /\ last' = [op |-> op, hart |-> h, addr |-> a, size |-> sz,
                   value |-> v, junk |-> junk, ok |-> r.ok]
       /\ data' = r.mem.data
       /\ behind' = r.mem.behind
       /\ lastWriteData' = r.mem.lwd
       /\ reservations' = r.mem.res
  /\ UNCHANGED <<phase, pagePmas, mmrMasks, envVars>>

\* The operation with the record of the harts' latest writes kept.
ApplyN(max, op, h, a, sz, v, junk, r) ==
  /\ Step(max, op, h, a, sz, v, junk, r)
  /\ recent' = Recorded(op, h, a, sz, r)

Apply(op, h, a, sz, v, junk, r) ==
  /\ Step(MaxOps, op, h, a, sz, v, junk, r)
  /\ UNCHANGED recent

\* lastWriteData_.at(localHartId) and reservations_.at(localHartId) throw
\* for a hart without a slot.  write and writeByte reach the slot only after
\* their tests, so that a call of such a hart that fails a test returns
\* false; the other operations of a hart begin with the slot.
\* The bytes behind data_ are loaded (for prevValue_) only by a write that
\* passes its tests: the other writes are tried with one junk.
WriteJunk(h, a, T) ==
  IF a + T > size_ /\ write(Mem, h, a, T, Value(T), 0).ok
    THEN JunkFor(a, T) ELSE {0}

Write(h, a, T, junk) ==
  Apply("write", h, a, T, Value(T), junk, write(Mem, h, a, T, Value(T), junk))

WriteByte(h, a) ==
  Apply("writeByte", h, a, 1, Value(1), 0, writeByte(Mem, h, a, Value(1)))

Poke(a, T) ==
  Apply("poke", HartCount, a, T, Value(T), 0, poke(Mem, a, T, Value(T)))

PokeByte(a) ==
  Apply("pokeByte", HartCount, a, 1, Value(1), 0, pokeByte(Mem, a, Value(1)))

ClearLastWriteInfo(h) ==
  /\ h \in LiveHarts
  /\ Apply("clearLastWriteInfo", h, 0, 0, << >>, 0,
           [ok |-> TRUE, mem |-> clearLastWriteInfo(Mem, h)])

MakeLr(h, a, sz) ==
  /\ h \in LiveHarts
  /\ Apply("makeLr", h, a, sz, << >>, 0,
           [ok |-> TRUE, mem |-> makeLr(Mem, h, a, sz)])

InvalidateLr(h) ==
  /\ h \in LiveHarts
  /\ Apply("invalidateLr", h, 0, 0, << >>, 0,
           [ok |-> TRUE, mem |-> invalidateLr(Mem, h)])

\* The hart counts setHartCount is tried with: one hart less, and all.
HartCounts == {HartCount - 1, HartCount}

\* setHartCount has no test: it resizes the slots at any time, during the
\* configuration and after writes and reservations; each call counts as
\* one of the MaxOps operations.  Init is the memory after
\* setHartCount(HartCount).
SetHartCount(count) ==
  /\ nOps < MaxOps
  /\ nOps' = nOps + 1
  /\ pre' = Mem
  /\ last' = [NoOp EXCEPT !.op = "setHartCount", !.size = count, !.ok = TRUE]
  /\ lastWriteData' = setHartCount(Mem, count).lwd
  /\ reservations' = setHartCount(Mem, count).res
  /\ UNCHANGED <<phase, pagePmas, mmrMasks, data, behind, recent, envVars>>

\* The files and the memory the loaders and copy are tried with: a file
\* that does not exist; a hex file of a byte, an address and two bytes; an
\* ELF file of the other class; an ELF file of one segment on the second
\* page; a memory of one page.
HexFiles ==
  {[exists |-> FALSE, tokens |-> << >>],
   [exists |-> TRUE,
    tokens |-> <<[at |-> FALSE, value |-> 17],
                 [at |-> TRUE, value |-> pageSize_],
                 [at |-> FALSE, value |-> 34], [at |-> FALSE, value |-> 51]>>]}

ElfSegment == [vaddr |-> pageSize_, bytes |-> <<68, 85, 102, 119>>]

ElfFile ==
  [exists |-> TRUE, class |-> 32, entry |-> pageSize_,
   segments |-> <<ElfSegment>>]

ElfFiles ==
  {ElfFile, [ElfFile EXCEPT !.exists = FALSE], [ElfFile EXCEPT !.class = 64]}

OtherMemories == {[a \in 1 .. pageSize_ |-> 153]}

LoadHexFile(file) ==
  Apply("loadHexFile", HartCount, 0, 0, << >>, 0, loadHexFile(Mem, file))

LoadElfFile(file) ==
  Apply("loadElfFile", HartCount, 0, 0, << >>, 0,
        loadElfFile(Mem, file, 32, checkUnmappedElf_))

Copy(other) ==
  Apply("copy", HartCount, 0, 0, << >>, 0,
        [ok |-> TRUE, mem |-> copy(Mem, other)])

\* checkUnmappedElf(flag), as an operation of the run.
CheckUnmappedElf(flag) ==
  /\ phase = "run"
  /\ nOps < MaxOps
  /\ nOps' = nOps + 1
  /\ pre' = Mem
  /\ last' = [NoOp EXCEPT !.op = "checkUnmappedElf", !.ok = TRUE]
  /\ checkUnmappedElf_' = flag
  /\ UNCHANGED <<phase, pagePmas, mmrMasks, data, behind, lastWriteData,
                 reservations, recent, execVars, feVars, instIds, snapVars,
                 disass, coreRun>>

\* A run-time operation can be applied.
CanStep == phase = "run" /\ nOps < MaxOps

Next ==
  \/ \E ar \in DccmAreas : DefineDccm(ar.addr, ar.size)
  \/ \E ar \in MmrAreas : DefineMemoryMappedRegisterArea(ar.addr, ar.size)
  \/ \E md \in MmrMaskDefs : DefineMemoryMappedRegisterWriteMask(md.addr, md.mask)
  \/ \E iccmRw \in BOOLEAN : FinishCcmConfig(iccmRw)
  \/ \E count \in HartCounts : SetHartCount(count)
  \/ /\ CanStep
     /\ \E h \in Harts, s \in Accesses :
          \E junk \in WriteJunk(h, s.addr, s.size) : Write(h, s.addr, s.size, junk)
  \/ CanStep /\ \E h \in Harts, a \in ByteAddrs : WriteByte(h, a)
  \/ CanStep /\ \E s \in Accesses : Poke(s.addr, s.size)
  \/ CanStep /\ \E a \in ByteAddrs : PokeByte(a)
  \/ CanStep /\ \E h \in Harts : ClearLastWriteInfo(h)
  \/ CanStep /\ \E h \in Harts, a \in LrAddrs, sz \in LrSizes : MakeLr(h, a, sz)
  \/ CanStep /\ \E h \in Harts : InvalidateLr(h)
  \/ CanStep /\ \E file \in HexFiles : LoadHexFile(file)
  \/ CanStep /\ \E file \in ElfFiles : LoadElfFile(file)
  \/ CanStep /\ \E other \in OtherMemories : Copy(other)
  \/ CanStep /\ \E flag \in BOOLEAN : CheckUnmappedElf(flag)

Spec == Init /\ [][Next]_vars

----------------------------------------------------------------------------
(* The access paths that store nothing or bypass the write attribute: a    *)
(* memory with an ICCM on its first page and a register area behind it,    *)
(* poked, fetched from, read and asked whether a write would succeed.      *)

\* Addresses fetched from: the first, the second and the last byte of every
\* page, and size_.
FetchAddrs == {a \in Addrs : a % pageSize_ \in {0, 1, pageSize_ - 1}}

\* A read or fetch: memory stays as it is; last.value is the value returned.
Fetched(op, a, sz, r) ==
  /\ phase = "run"
  /\ nOps < MaxOps
  /\ nOps' = nOps + 1
  /\ pre' = Mem
  /\ last' = [op |-> op, hart |-> HartCount, addr |-> a, size |-> sz,
              value |-> r.value, junk |-> 0, ok |-> r.ok]
  /\ UNCHANGED <<phase, pagePmas, mmrMasks, data, behind, lastWriteData,
                 reservations, recent, envVars>>

ReadInstHalfWord(a) == Fetched("readInstHalfWord", a, 2, readInstHalfWord(Mem, a))

ReadInstWord(a) == Fetched("readInstWord", a, 4, readInstWord(Mem, a))

CheckWrite(a, T) ==
  LET r == checkWrite(Mem, a, T, Value(T))
  IN  Apply("checkWrite", HartCount, a, T, r.value, 0, r)

NextAccess ==
  \/ \E ar \in IccmAreas : DefineIccm(ar.addr, ar.size)
  \/ \E ar \in MmrAreas : DefineMemoryMappedRegisterArea(ar.addr, ar.size)
  \/ \E md \in MmrMaskDefs : DefineMemoryMappedRegisterWriteMask(md.addr, md.mask)
  \/ \E iccmRw \in BOOLEAN : FinishCcmConfig(iccmRw)
  \/ \E s \in Accesses : Poke(s.addr, s.size)
  \/ \E a \in FetchAddrs : ReadInstHalfWord(a)
  \/ \E a \in FetchAddrs : ReadInstWord(a)
  \/ \E s \in Accesses : CheckWrite(s.addr, s.size)

SpecAccess == Init /\ [][NextAccess]_vars

----------------------------------------------------------------------------
(* The reservation operations alone, with stores of every tried width and  *)
(* address standing for the written or poked bytes.                        *)

InvalidateOtherHartLr(h, a, sz) ==
  Apply("invalidateOtherHartLr", h, a, sz, << >>, 0,
        [ok |-> TRUE, mem |-> invalidateOtherHartLr(Mem, h, a, sz)])

InvalidateLrs(a, sz) ==
  Apply("invalidateLrs", HartCount, a, sz, << >>, 0,
        [ok |-> TRUE, mem |-> invalidateLrs(Mem, a, sz)])

NextLr ==
  \/ \E iccmRw \in BOOLEAN : FinishCcmConfig(iccmRw)
  \/ \E h \in Harts, a \in LrAddrs, sz \in LrSizes : MakeLr(h, a, sz)
  \/ \E h \in Harts : InvalidateLr(h)
  \/ \E h \in Harts, s \in Accesses : InvalidateOtherHartLr(h, s.addr, s.size)
  \/ \E s \in Accesses : InvalidateLrs(s.addr, s.size)

SpecLr == Init /\ [][NextLr]_vars

----------------------------------------------------------------------------
(* The last-write recorder: longer runs of writes and clears over a memory  *)
(* with or without a register area.                                        *)

\* The writes tried: a byte and a double word at address 0, a half word and
\* a word at the first byte of the second page, a byte at size_.
LwAccesses ==
  {s \in Accesses : \/ (s.addr = 0 /\ s.size \in {1, 8})
                     \/ (s.addr = pageSize_ /\ s.size \in {2, 4})
                     \/ (s.addr = size_ /\ s.size = 1)}

WriteLw(h, a, T) ==
  ApplyN(MaxLwOps, "write", h, a, T, Value(T), 0,
         write(Mem, h, a, T, Value(T), 0))

ClearLw(h) ==
  /\ h \in LiveHarts
  /\ ApplyN(MaxLwOps, "clearLastWriteInfo", h, 0, 0, << >>, 0,
            [ok |-> TRUE, mem |-> clearLastWriteInfo(Mem, h)])

NextLw ==
  \/ \E ar \in MmrAreas : DefineMemoryMappedRegisterArea(ar.addr, ar.size)
  \/ \E md \in MmrMaskDefs : DefineMemoryMappedRegisterWriteMask(md.addr, md.mask)
  \/ \E iccmRw \in BOOLEAN : FinishCcmConfig(iccmRw)
  \/ \E h \in Harts, s \in LwAccesses : WriteLw(h, s.addr, s.size)
  \/ \E h \in Harts : ClearLw(h)

SpecLw == Init /\ [][NextLw]_vars

----------------------------------------------------------------------------
(* Properties *)

\* [addr, addr + size) and the reservation's range have a byte in common.
Overlap(res, addr, size) ==
  res.addr_ < addr + size /\ addr < res.addr_ + res.size_

SuccessfulWrite == last.op = "write" /\ last.ok

SuccessfulPoke == last.op \in {"poke", "pokeByte"} /\ last.ok

NonMmr(addr) == ~isMemMappedReg(getPma(addr))

\* C1 as claimed: after a successful write<T>(h, a, v) the valid reservation
\* of another hart h2 that overlaps [a, a+T) is invalid and has_lr(h2,
\* res.addr) is false.
C1_WriteInvalidatesOtherHarts ==
  SuccessfulWrite =>
    \A h2 \in LiveHarts \ {last.hart} :
       (pre.res[h2].valid_ /\ Overlap(pre.res[h2], last.addr, last.size))
         => (~reservations[h2].valid_ /\ ~hasLr(Mem, h2, pre.res[h2].addr_))

\* C1 amended: a successful write<T>(h, a, v) by itself leaves the overlapping
\* reservation of another hart h2 as it was (has_lr(h2, res.addr) still
\* true); the reservation is invalid and has_lr(h2, res.addr) false once
\* invalidate_other_hart_lr(h, a, sizeof(T)) is applied after the write.
C1_WriteThenInvalidateOtherHartLr ==
  SuccessfulWrite =>
    \A h2 \in LiveHarts \ {last.hart} :
       (pre.res[h2].valid_ /\ Overlap(pre.res[h2], last.addr, last.size))
         => LET after == invalidateOtherHartLr(Mem, last.hart, last.addr, last.size)
            IN  /\ reservations[h2] = pre.res[h2]
                /\ hasLr(Mem, h2, pre.res[h2].addr_)
                /\ ~after.res[h2].valid_
                /\ ~hasLr(after, h2, pre.res[h2].addr_)

C1_Witness ==
  /\ SuccessfulWrite
  /\ \E h2 \in LiveHarts \ {last.hart} :
        pre.res[h2].valid_ /\ Overlap(pre.res[h2], last.addr, last.size)

\* C2: a successful write<T>(h, a, v) leaves hart h's own reservation as it
\* was: every has_lr(h, r) that was true before the write is true after it,
\* also when [a, a+T) overlaps the reservation.
C2_WriteKeepsOwnReservation ==
  SuccessfulWrite =>
    /\ reservations[last.hart] = pre.res[last.hart]
    /\ \A r \in Addrs : hasLr(pre, last.hart, r) => hasLr(Mem, last.hart, r)

C2_Witness ==
  /\ SuccessfulWrite
  /\ pre.res[last.hart].valid_
  /\ Overlap(pre.res[last.hart], last.addr, last.size)
  /\ hasLr(Mem, last.hart, pre.res[last.hart].addr_)

\* C3 as claimed: after a successful poke of width T at a, the reservation of
\* every hart that overlaps [a, a+T) is invalid.
C3_PokeInvalidatesAllHarts ==
  SuccessfulPoke =>
    \A h \in LiveHarts :
       (pre.res[h].valid_ /\ Overlap(pre.res[h], last.addr, last.size))
         => ~reservations[h].valid_

\* C3 amended: a successful poke by itself leaves every reservation as it
\* was; the reservation of every hart that overlaps [a, a+T) is invalid once
\* invalidate_lrs(a, sizeof(T)) is applied after the poke.
C3_PokeThenInvalidateLrs ==
  SuccessfulPoke =>
    \A h \in LiveHarts :
       (pre.res[h].valid_ /\ Overlap(pre.res[h], last.addr, last.size))
         => /\ reservations[h] = pre.res[h]
            /\ ~invalidateLrs(Mem, last.addr, last.size).res[h].valid_

C3_Witness ==
  /\ SuccessfulPoke
  /\ \E h \in LiveHarts :
        pre.res[h].valid_ /\ Overlap(pre.res[h], last.addr, last.size)

\* C4 as claimed: right after a successful non-MMR write<T>(h, a, v),
\* get_last_write_old(h) gives size sizeof(T), address a and the value that
\* read<T>(a) returned just before the write.
C4_LastWriteOldIsPrior ==
  (SuccessfulWrite /\ NonMmr(last.addr)) =>
    LET old   == getLastWriteOldValue(Mem, last.hart, 0, Zeros(8))
        prior == read(pre, last.addr, last.size, last.junk)
    IN  /\ old.size = last.size
        /\ old.addr = last.addr
        /\ prior.ok
        /\ old.value = ZeroExt(prior.value)

\* C5: right after a successful non-MMR write<T>(h, a, v) or writeByte(h, a,
\* v), get_last_write_new(h) gives size sizeof(T), address a and value v.
C5_LastWriteNewIsWritten ==
  (last.op \in {"write", "writeByte"} /\ last.ok /\ NonMmr(last.addr)) =>
    getLastWriteNewValue(Mem, last.hart, 0, Zeros(8))
      = [size |-> last.size, addr |-> last.addr, value |-> ZeroExt(last.value)]

C5_Witness ==
  /\ last.op = "writeByte" /\ last.ok /\ NonMmr(last.addr)
  /\ pre.data[last.addr] # last.value[1]
  /\ getLastWriteNewValue(Mem, last.hart, 0, Zeros(8)).size = 1

\* v & mask(a): mask(a) is all ones for an address that is no memory-mapped
\* register.
MaskedValue(addr, value) ==
  IF NonMmr(addr) THEN value
  ELSE [i \in 1 .. Len(value) |-> ByteAnd(value[i], getMemoryMappedMask(addr)[i])]

\* The PMAs of the first and of the last byte of the last operation's access.
FirstPma == getPma(last.addr)

LastPma == getPma(last.addr + last.size - 1)

Mapped(pma) == pma.read \/ pma.write \/ pma.exec

\* C6 as claimed: for a < N, if pma(a).read, the access is aligned or does not
\* straddle, and T = u32 when the page is MMR, then write<T>(a, v) followed
\* by read<T>(a) returns v & mask(a).
C6_WriteReadRoundTrip ==
  (/\ last.op = "write"
   /\ last.addr < size_
   /\ isRead(FirstPma)
   /\ (last.addr % last.size = 0 \/ FirstPma = LastPma)
   /\ (isMemMappedReg(FirstPma) => last.size = 4))
    => LET r == read(Mem, last.addr, last.size, last.junk)
       IN  r.ok /\ r.value = MaskedValue(last.addr, last.value)

\* C6 amended: for a < N, if pma(a).read and pma(a).write, the access is
\* aligned or does not straddle, and (when the page is MMR) T = u32 and a is
\* word-aligned, then write<T>(a, v) succeeds and a following read<T>(a)
\* returns v & mask(a).
C6_WriteReadRoundTripWritable ==
  (/\ last.op = "write"
   /\ last.addr < size_
   /\ isRead(FirstPma) /\ isWrite(FirstPma)
   /\ (last.addr % last.size = 0 \/ FirstPma = LastPma)
   /\ (isMemMappedReg(FirstPma) => (last.size = 4 /\ last.addr % 4 = 0)))
    => LET r == read(Mem, last.addr, last.size, last.junk)
       IN  last.ok /\ r.ok /\ r.value = MaskedValue(last.addr, last.value)

C6_Witness ==
  /\ SuccessfulWrite
  /\ isMemMappedReg(FirstPma)
  /\ getMemoryMappedMask(last.addr) # AllOnes
  /\ read(Mem, last.addr, last.size, last.junk).value # last.value
  /\ read(Mem, last.addr, last.size, last.junk).value # read(pre, last.addr, last.size, last.junk).value

\* C7: when write<T>, writeByte, poke<T> or pokeByte returns false, the
\* backing store, every hart's last-write slot and every hart's reservation
\* are as before the call.
C7_FailureChangesNothing ==
  (last.op \in {"write", "writeByte", "poke", "pokeByte"} /\ ~last.ok)
    => /\ data = pre.data /\ behind = pre.behind
       /\ lastWriteData = pre.lwd
       /\ reservations = pre.res

C7_Witness ==
  /\ last.op = "write" /\ ~last.ok
  /\ isWrite(FirstPma)
  /\ \E h \in LiveHarts : pre.lwd[h].size_ # 0
  /\ \E a \in DOMAIN pre.data : pre.data[a] # 0

\* C8 as claimed: read<T>(addr) and write<T>(hart, addr, v) fail whenever
\* addr + sizeof(T) > N.
C8_OutOfBoundsFails ==
  (last.op = "write" /\ last.addr + last.size > size_)
    => /\ ~last.ok
       /\ ~read(pre, last.addr, last.size, last.junk).ok

\* C9: a read<T>, write<T> or check_write<T> at an address not naturally
\* aligned for T, on a non-MMR page whose first byte has the attribute the
\* access needs, is rejected if and only if get_pma(addr) differs from
\* get_pma(addr + sizeof(T) - 1).
C9_StraddleRejectedIffPmasDiffer ==
  (last.op = "write" /\ last.addr % last.size # 0 /\ NonMmr(last.addr))
    => LET differ == FirstPma # LastPma
       IN  /\ isWrite(FirstPma) =>
                /\ (~last.ok) <=> differ
                /\ (~checkWrite(pre, last.addr, last.size, last.value).ok) <=> differ
           /\ isRead(FirstPma) =>
                ((~read(pre, last.addr, last.size, last.junk).ok) <=> differ)

C9_Witness ==
  /\ last.op = "write" /\ last.addr % last.size # 0 /\ NonMmr(last.addr)
  /\ isWrite(FirstPma) /\ isRead(FirstPma)
  /\ FirstPma # LastPma /\ Mapped(LastPma) /\ isWrite(LastPma)
  /\ ~last.ok

\* C10 as claimed: a misaligned poke<T> whose first and last bytes lie in
\* mapped pages with different PMAs returns false and stores nothing.
C10_PokeHonoursStraddle ==
  (/\ last.op = "poke"
   /\ last.addr % last.size # 0
   /\ Mapped(FirstPma) /\ Mapped(LastPma)
   /\ FirstPma # LastPma)
    => (~last.ok /\ data = pre.data)

\* C10 amended: a misaligned poke<T> is rejected (returns false, stores
\* nothing) when the page of its last byte is unmapped; when its first and
\* last bytes lie in mapped pages, also ones with different PMAs, and the
\* first page is not MMR, it succeeds and stores all its bytes.
C10_PokeAsksLastByteMapped ==
  (last.op = "poke" /\ last.addr % last.size # 0 /\ Mapped(FirstPma))
    => /\ ~Mapped(LastPma) => (~last.ok /\ data = pre.data)
       /\ (Mapped(LastPma) /\ NonMmr(last.addr))
            => (last.ok /\ Mem = StoreBytes(pre, last.addr, last.value))

C10_Witness ==
  /\ last.op = "poke" /\ last.addr % last.size # 0
  /\ Mapped(FirstPma) /\ Mapped(LastPma) /\ FirstPma # LastPma
  /\ last.ok
  /\ data # pre.data

\* The last operation was an instruction fetch.
Fetch == last.op \in {"readInstHalfWord", "readInstWord"}

\* C11 as claimed: read_inst_half(addr) and read_inst_word(addr) succeed if
\* and only if every fetched byte is executable and the fetched range lies
\* within [0, N).
C11_FetchIffEveryByteExec ==
  Fetch =>
    (last.ok <=>
       /\ last.addr + last.size <= size_
       /\ \A i \in 0 .. (last.size - 1) : isExec(getPma(last.addr + i)))

\* C11 amended: a fetch succeeds if and only if its first byte is executable
\* and the address is aligned for the fetch or the PMAs of its first and last
\* bytes are equal; a fetch that succeeds lies within [0, N), has every byte
\* executable and returns the bytes stored at the address.
C11_FetchIffExecAndNoStraddle ==
  Fetch =>
    /\ last.ok <=> (/\ isExec(FirstPma)
                    /\ (last.addr % last.size = 0 \/ FirstPma = LastPma))
    /\ last.ok =>
         /\ last.addr + last.size <= size_
         /\ \A i \in 0 .. (last.size - 1) : isExec(getPma(last.addr + i))
         /\ last.value = [i \in 1 .. last.size |-> data[last.addr + i - 1]]

C11_Witness ==
  /\ Fetch
  /\ last.addr % last.size # 0
  /\ isExec(FirstPma) /\ isExec(LastPma)
  /\ FirstPma # LastPma
  /\ ~last.ok

\* C12: a successful write_word(h, a, v) to a word-aligned address of a
\* writable register page stores v & mask(a) at a and leaves in hart h's
\* last-write slot size 4, address a, the value v & mask(a) and, as previous
\* value, the word held at a before the store.
C12_MmrWriteStoresAndRecordsMasked ==
  (/\ SuccessfulWrite /\ last.size = 4 /\ last.addr % 4 = 0
   /\ isMemMappedReg(FirstPma) /\ isWrite(FirstPma))
    => LET masked == MaskedValue(last.addr, last.value)
       IN  /\ LoadBytes(Mem, last.addr, 4, 0) = masked
           /\ lastWriteData[last.hart] =
                [size_ |-> 4, addr_ |-> last.addr, value_ |-> ZeroExt(masked),
                 prevValue_ |-> ZeroExt(LoadBytes(pre, last.addr, 4, 0))]

C12_Witness ==
  /\ SuccessfulWrite /\ last.size = 4 /\ last.addr % 4 = 0
  /\ isMemMappedReg(FirstPma)
  /\ MaskedValue(last.addr, last.value) # last.value
  /\ LoadBytes(pre, last.addr, 4, 0) # Zeros(4)
  /\ lastWriteData[last.hart].prevValue_ # Zeros(8)

\* C13: a read, write, check_write or poke whose first byte lies in a
\* register page fails when its width is not 4 bytes or its address is not
\* word-aligned; write_byte, poke_byte and read_byte to a register address
\* fail.
C13_BadMmrAccessFails ==
  /\ (/\ last.op \in {"write", "poke"}
      /\ isMemMappedReg(FirstPma)
      /\ (last.size # 4 \/ last.addr % 4 # 0))
       => /\ ~last.ok
          /\ ~read(pre, last.addr, last.size, last.junk).ok
          /\ ~checkWrite(pre, last.addr, last.size, last.value).ok
          /\ ~poke(pre, last.addr, last.size, last.value).ok
          /\ \A h \in LiveHarts :
                ~write(pre, h, last.addr, last.size, last.value, last.junk).ok
  /\ (last.op \in {"writeByte", "pokeByte"} /\ isMemMappedReg(FirstPma))
       => /\ ~last.ok
          /\ ~readByte(pre, last.addr).ok
          /\ ~pokeByte(pre, last.addr, last.value).ok
          /\ \A h \in LiveHarts : ~writeByte(pre, h, last.addr, last.value).ok

C13_Witness ==
  /\ last.op = "write" /\ last.size = 4 /\ last.addr % 4 # 0
  /\ isMemMappedReg(FirstPma) /\ FirstPma = LastPma
  /\ isRead(FirstPma) /\ isWrite(FirstPma)
  /\ ~last.ok

\* C14: check_write<T>(addr, v) returns true exactly when write<T>(h, addr,
\* v), from the same state, returns true, whichever hart h writes.
C14_CheckWriteGatesAsWrite ==
  last.op = "checkWrite" =>
    \A h \in Harts, junk \in Junk :
       last.ok = write(pre, h, last.addr, last.size, Value(last.size), junk).ok

C14_Witness ==
  /\ last.op = "checkWrite" /\ last.size = 4 /\ last.addr % 4 # 0
  /\ isMemMappedReg(FirstPma) /\ FirstPma = LastPma /\ isWrite(FirstPma)
  /\ ~last.ok

\* C15: check_write<T>(addr, v) leaves the backing store, every last-write
\* slot and every reservation as they were, whether it succeeds or fails; on
\* success its value argument is v & mask(addr) on a register page, the word
\* write would store there, and v elsewhere.
C15_CheckWriteChangesNothing ==
  last.op = "checkWrite" =>
    /\ Mem = pre
    /\ last.ok =>
         IF isMemMappedReg(FirstPma)
           THEN /\ last.value = MaskedValue(last.addr, Value(4))
                /\ \A h \in Harts :
                     last.value =
                       LoadBytes(write(pre, h, last.addr, 4, Value(4), 0).mem,
                                 last.addr, 4, 0)
           ELSE last.value = Value(last.size)

C15_Witness ==
  /\ last.op = "checkWrite" /\ last.ok
  /\ isMemMappedReg(FirstPma)
  /\ last.value # Value(4)
  /\ last.value # LoadBytes(Mem, last.addr, 4, 0)
  /\ \E a \in DOMAIN data : data[a] # 0

\* C16: poke<T> at a naturally aligned address of a page that is no register
\* page succeeds if and only if the page is mapped (read, write or exec
\* set), whatever its write attribute; after a successful poke a data read,
\* and a fetch of the same width, that the page permits returns the poked
\* value.
C16_PokeNeedsOnlyMapped ==
  (last.op = "poke" /\ last.addr % last.size = 0 /\ NonMmr(last.addr))
    => /\ last.ok <=> Mapped(FirstPma)
       /\ (last.ok /\ isRead(FirstPma))
            => \A junk \in Junk :
                  read(Mem, last.addr, last.size, junk)
                    = [ok |-> TRUE, value |-> last.value]
       /\ (last.ok /\ isExec(FirstPma) /\ last.size = 2)
            => readInstHalfWord(Mem, last.addr) = [ok |-> TRUE, value |-> last.value]
       /\ (last.ok /\ isExec(FirstPma) /\ last.size = 4)
            => readInstWord(Mem, last.addr) = [ok |-> TRUE, value |-> last.value]

C16_Witness ==
  /\ last.op = "poke" /\ last.ok /\ last.size = 4 /\ last.addr % 4 = 0
  /\ ~isWrite(FirstPma) /\ isExec(FirstPma) /\ isRead(FirstPma)
  /\ readInstWord(Mem, last.addr).value = last.value
  /\ readInstWord(pre, last.addr).value # last.value

\* C17: poke<T> and pokeByte, succeeding or failing, leave every hart's
\* last-write slot as it was: get_last_write_new and get_last_write_old of
\* every hart give the same result before and after the poke.
C17_PokeKeepsLastWrite ==
  last.op \in {"poke", "pokeByte"} =>
    /\ lastWriteData = pre.lwd
    /\ \A h \in LiveHarts :
          /\ getLastWriteNewValue(Mem, h, 0, Zeros(8))
               = getLastWriteNewValue(pre, h, 0, Zeros(8))
          /\ getLastWriteOldValue(Mem, h, 0, Zeros(8))
               = getLastWriteOldValue(pre, h, 0, Zeros(8))

C17_Witness ==
  /\ last.op = "pokeByte" /\ last.ok
  /\ data # pre.data
  /\ \E h \in LiveHarts :
        /\ pre.lwd[h].size_ # 0
        /\ getLastWriteNewValue(Mem, h, 0, Zeros(8)).size = pre.lwd[h].size_

\* C18: has_lr(h, addr) is true if and only if hart h's reservation is valid
\* and its recorded address is addr; for an address inside the reserved
\* range other than the recorded one it is false, whatever the recorded
\* size.
C18_HasLrIsExactAddress ==
  \A h \in Harts, a \in Addrs :
     LET res == reservations[h]
     IN  /\ hasLr(Mem, h, a) <=> (res.valid_ /\ res.addr_ = a)
         /\ (res.addr_ < a /\ a < res.addr_ + res.size_) => ~hasLr(Mem, h, a)

C18_Witness ==
  /\ last.op = "makeLr" /\ last.size = 8
  /\ reservations[last.hart].valid_
  /\ hasLr(Mem, last.hart, last.addr)
  /\ last.addr + 4 \in Addrs
  /\ ~hasLr(Mem, last.hart, last.addr + 4)

\* C19: make_lr(h, addr, size) sets hart h's reservation to {addr, size,
\* valid} in place of the one h had, valid or not: afterwards has_lr(h, addr)
\* is true and has_lr(h, old) false for an address old # addr reserved
\* before; the reservations of the other harts are as they were.
C19_MakeLrReplacesOwnReservation ==
  last.op = "makeLr" =>
    /\ reservations[last.hart]
         = [addr_ |-> last.addr, size_ |-> last.size, valid_ |-> TRUE]
    /\ hasLr(Mem, last.hart, last.addr)
    /\ \A old \in Addrs :
          (hasLr(pre, last.hart, old) /\ old # last.addr)
            => ~hasLr(Mem, last.hart, old)
    /\ \A h2 \in Harts \ {last.hart} : reservations[h2] = pre.res[h2]

C19_Witness ==
  /\ last.op = "makeLr"
  /\ pre.res[last.hart].valid_
  /\ pre.res[last.hart].addr_ # last.addr
  /\ pre.res[last.hart].size_ # last.size
  /\ ~hasLr(Mem, last.hart, pre.res[last.hart].addr_)

\* C20: invalidate_other_hart_lr(h, addr, store_size), store_size >= 1, clears
\* the reservation (of size >= 1) of a hart h2 # h if and only if [addr,
\* addr + store_size) and [res.addr, res.addr + res.size) have a byte in
\* common; the test applied (addr in the reserved range or res.addr in the
\* stored range) is that intersection, and hart h's own reservation is left
\* as it was.
C20_InvalidateOtherHartLrIsIntersection ==
  (last.op = "invalidateOtherHartLr" /\ last.size >= 1) =>
    /\ \A h2 \in Harts \ {last.hart} :
          pre.res[h2].size_ >= 1 =>
            /\ LrHit(pre.res[h2], last.addr, last.size)
                 <=> Overlap(pre.res[h2], last.addr, last.size)
            /\ reservations[h2] =
                 IF Overlap(pre.res[h2], last.addr, last.size)
                   THEN [pre.res[h2] EXCEPT !.valid_ = FALSE]
                   ELSE pre.res[h2]
    /\ reservations[last.hart] = pre.res[last.hart]

C20_Witness ==
  /\ last.op = "invalidateOtherHartLr"
  /\ \E h2 \in Harts \ {last.hart} :
        /\ pre.res[h2].valid_ /\ ~reservations[h2].valid_
        /\ last.addr < pre.res[h2].addr_
        /\ pre.res[h2].addr_ < last.addr + last.size

\* C21: invalidate_lrs(addr, store_size) applies the overlap test of
\* invalidate_other_hart_lr to all harts: for any hart h its effect is that
\* of invalidate_other_hart_lr(h, addr, store_size) with h's own reservation
\* cleared too when it overlaps; a reservation that does not overlap stays
\* as it was.
C21_InvalidateLrsIsAllHarts ==
  last.op = "invalidateLrs" =>
    /\ \A h \in Harts :
          LET others == invalidateOtherHartLr(pre, h, last.addr, last.size)
          IN  reservations =
                [others.res EXCEPT
                   ![h] = IF LrHit(pre.res[h], last.addr, last.size)
                            THEN [pre.res[h] EXCEPT !.valid_ = FALSE]
                            ELSE pre.res[h]]
    /\ \A h \in Harts :
          ~Overlap(pre.res[h], last.addr, last.size)
            => reservations[h] = pre.res[h]

C21_Witness ==
  /\ last.op = "invalidateLrs"
  /\ \E h \in Harts :
        /\ pre.res[h].valid_ /\ ~reservations[h].valid_
        /\ last.addr < pre.res[h].addr_
        /\ pre.res[h].addr_ < last.addr + last.size

\* C22: the last-write slot is one slot, not a queue: once hart h has written
\* successfully and not cleared its slot since, get_last_write_new(h) gives
\* the size, the address and the value of h's latest successful write, and
\* nothing of h's earlier writes.
C22_LastWriteIsLatestOnly ==
  \A h \in Harts :
     recent[h].size # 0 =>
       getLastWriteNewValue(Mem, h, 0, Zeros(8))
         = [size |-> recent[h].size, addr |-> recent[h].addr,
            value |-> recent[h].value]

C22_Witness ==
  /\ SuccessfulWrite
  /\ pre.lwd[last.hart].size_ # 0
  /\ pre.lwd[last.hart].size_ # last.size
  /\ pre.lwd[last.hart].addr_ # last.addr
  /\ getLastWriteNewValue(Mem, last.hart, 0, Zeros(8)).addr = last.addr

\* The caller's addr and value before a query of the last-write slot.
Probes == {[addr |-> 0, value |-> Zeros(8)], [addr |-> 5, value |-> ZeroExt(Pattern)]}

\* C23: from clear_last_write(h) to the next successful write by hart h,
\* get_last_write_new(h) and get_last_write_old(h) return size 0 and leave
\* the caller's addr and value as they were; failed writes and writes by
\* other harts in between change nothing of it.
C23_ClearedSlotStaysEmpty ==
  \A h \in Harts :
     recent[h].cleared =>
       \A p \in Probes :
          /\ getLastWriteNewValue(Mem, h, p.addr, p.value)
               = [size |-> 0, addr |-> p.addr, value |-> p.value]
          /\ getLastWriteOldValue(Mem, h, p.addr, p.value)
               = [size |-> 0, addr |-> p.addr, value |-> p.value]

C23_Witness ==
  /\ SuccessfulWrite
  /\ \E h \in Harts \ {last.hart} :
        /\ recent[h].cleared
        /\ lastWriteData[h].value_ # Zeros(8)
        /\ lastWriteData[h].size_ = 0

\* C24: in every state each hart's last-write slot has a size among 0, 1, 2,
\* 4 and 8, and a size other than 0 is the width of the hart's latest
\* recorded successful write.
C24_LastWriteSizeIsWidth ==
  \A h \in Harts :
     /\ lastWriteData[h].size_ \in {0} \cup Widths
     /\ lastWriteData[h].size_ # 0 => lastWriteData[h].size_ = recent[h].size

C24_Witness ==
  /\ SuccessfulWrite /\ isMemMappedReg(FirstPma)
  /\ lastWriteData[last.hart].size_ = 4
  /\ pre.lwd[last.hart].size_ \in {1, 8}
  /\ \E h \in Harts \ {last.hart} : lastWriteData[h].size_ \in {1, 8}

----------------------------------------------------------------------------
(* The executor of the atomic instructions.  Each hart executes one
   atomic instruction sequence on the same word: a load-reserve followed
   by a store-conditional, or an AMO.  lr and sc run under lrMutex_; an
   AMO runs under amoMutex_ and takes lrMutex_ inside it to invalidate the
   other harts' reservations. *)

AtomicAddr == 0

AtomicSize == 4

Free == HartCount

WaitPcs == {"lrWait", "scWait", "amoWait", "amoLrWait"}

DonePcs == {"scDone", "amoDone"}

ScPcs == {"scCheck", "scWrite", "scClear", "scDone"}

\* The mutex a waiting hart is waiting for.
Wanted(h) == IF hartPc[h] = "amoWait" THEN amoMutex ELSE lrMutex

Runnable(h) ==
  /\ hartPc[h] \notin DonePcs
  /\ hartPc[h] \in WaitPcs => Wanted(h) = Free

\* An executor step that leaves the memory in state m.
ExecMem(m) ==
  /\ phase = "run"
  /\ data' = m.data
  /\ behind' = m.behind
  /\ lastWriteData' = m.lwd
  /\ reservations' = m.res
  /\ UNCHANGED <<phase, pagePmas, mmrMasks, last, pre, nOps, recent,
                 feVars, instIds, snapVars, disass, coreRun, checkUnmappedElf_>>

Start(h, inst) ==
  /\ hartPc[h] = "idle"
  /\ hartPc' = [hartPc EXCEPT ![h] = IF inst = "amo" THEN "amoWait" ELSE "lrWait"]
  /\ ExecMem(Mem)
  /\ UNCHANGED <<scWrote, scCascaded, lrAfter, amoMutex, lrMutex>>

\* Mutant: the load-reserve goes on to take amoMutex_ inside lrMutex_.
LrAcquire_thenAmo(h) ==
  /\ hartPc[h] = "lrWait"
  /\ lrMutex = Free
  /\ lrMutex' = h
  /\ hartPc' = [hartPc EXCEPT ![h] = "amoWait"]
  /\ ExecMem(Mem)
  /\ UNCHANGED <<scWrote, scCascaded, lrAfter, amoMutex>>

LrAcquire(h) ==
  /\ hartPc[h] = "lrWait"
  /\ lrMutex = Free
  /\ lrMutex' = h
  /\ hartPc' = [hartPc EXCEPT ![h] = "lrHeld"]
  /\ ExecMem(Mem)
  /\ UNCHANGED <<scWrote, scCascaded, lrAfter, amoMutex>>

\* lr: the read, then make_lr when the read succeeded.
LoadReserve(h) ==
  /\ hartPc[h] = "lrHeld"
  /\ LET r == read(Mem, AtomicAddr, AtomicSize, 0)
     IN  ExecMem(IF r.ok THEN makeLr(Mem, h, AtomicAddr, AtomicSize) ELSE Mem)
  /\ lrAfter' = [lrAfter EXCEPT ![h] = {g \in Harts : hartPc[g] \in ScPcs}]
  /\ lrMutex' = Free
  /\ hartPc' = [hartPc EXCEPT ![h] = "scWait"]
  /\ UNCHANGED <<scWrote, scCascaded, amoMutex>>

ScAcquire(h) ==
  /\ hartPc[h] = "scWait"
  /\ lrMutex = Free
  /\ lrMutex' = h
  /\ hartPc' = [hartPc EXCEPT ![h] = "scCheck"]
  /\ ExecMem(Mem)
  /\ UNCHANGED <<scWrote, scCascaded, lrAfter, amoMutex>>

\* sc: has_lr decides whether the write is performed.
ScCheck(h) ==
  /\ hartPc[h] = "scCheck"
  /\ hartPc' = [hartPc EXCEPT ![h] =
                  IF hasLr(Mem, h, AtomicAddr) THEN "scWrite" ELSE "scClear"]
  /\ ExecMem(Mem)
  /\ UNCHANGED <<scWrote, scCascaded, lrAfter, amoMutex, lrMutex>>

\* sc: the write alone.
ScWrite(h) ==
  /\ hartPc[h] = "scWrite"
  /\ LET r == write(Mem, h, AtomicAddr, AtomicSize, Value(AtomicSize), 0)
     IN  /\ ExecMem(r.mem)
         /\ scWrote' = [scWrote EXCEPT ![h] = r.ok]
  /\ hartPc' = [hartPc EXCEPT ![h] = "scClear"]
  /\ UNCHANGED <<scCascaded, lrAfter, amoMutex, lrMutex>>

\* sc: the write, then invalidate_other_hart_lr over the stored bytes.
ScWriteCascade(h) ==
  /\ hartPc[h] = "scWrite"
  /\ LET r == write(Mem, h, AtomicAddr, AtomicSize, Value(AtomicSize), 0)
     IN  /\ ExecMem(IF r.ok
                      THEN invalidateOtherHartLr(r.mem, h, AtomicAddr, AtomicSize)
                      ELSE r.mem)
         /\ scWrote' = [scWrote EXCEPT ![h] = r.ok]
         /\ scCascaded' = [scCascaded EXCEPT ![h] = r.ok]
  /\ hartPc' = [hartPc EXCEPT ![h] = "scClear"]
  /\ UNCHANGED <<lrAfter, amoMutex, lrMutex>>

\* sc: the hart's own reservation is cleared whatever the outcome.
ScClear(h) ==
  /\ hartPc[h] = "scClear"
  /\ ExecMem(invalidateLr(Mem, h))
  /\ lrMutex' = Free
  /\ hartPc' = [hartPc EXCEPT ![h] = "scDone"]
  /\ UNCHANGED <<scWrote, scCascaded, lrAfter, amoMutex>>

AmoAcquire(h) ==
  /\ hartPc[h] = "amoWait"
  /\ amoMutex = Free
  /\ amoMutex' = h
  /\ hartPc' = [hartPc EXCEPT ![h] = "amoHeld"]
  /\ ExecMem(Mem)
  /\ UNCHANGED <<scWrote, scCascaded, lrAfter, lrMutex>>

\* AMO: the load, the modification and the store, under amoMutex_.
AmoLoadStore(h) ==
  /\ hartPc[h] = "amoHeld"
  /\ LET r == read(Mem, AtomicAddr, AtomicSize, 0)
     IN  ExecMem(IF r.ok
                   THEN write(Mem, h, AtomicAddr, AtomicSize,
                              Value(AtomicSize), 0).mem
                   ELSE Mem)
  /\ hartPc' = [hartPc EXCEPT ![h] = "amoLrWait"]
  /\ UNCHANGED <<scWrote, scCascaded, lrAfter, amoMutex, lrMutex>>

AmoLrAcquire(h) ==
  /\ hartPc[h] = "amoLrWait"
  /\ lrMutex = Free
  /\ lrMutex' = h
  /\ hartPc' = [hartPc EXCEPT ![h] = "amoInvalidate"]
  /\ ExecMem(Mem)
  /\ UNCHANGED <<scWrote, scCascaded, lrAfter, amoMutex>>

AmoInvalidate(h) ==
  /\ hartPc[h] = "amoInvalidate"
  /\ ExecMem(invalidateOtherHartLr(Mem, h, AtomicAddr, AtomicSize))
  /\ lrMutex' = Free
  /\ hartPc' = [hartPc EXCEPT ![h] = "amoRelease"]
  /\ UNCHANGED <<scWrote, scCascaded, lrAfter, amoMutex>>

AmoRelease(h) ==
  /\ hartPc[h] = "amoRelease"
  /\ amoMutex' = Free
  /\ hartPc' = [hartPc EXCEPT ![h] = "amoDone"]
  /\ ExecMem(Mem)
  /\ UNCHANGED <<scWrote, scCascaded, lrAfter, lrMutex>>

NextExec ==
  \/ \E iccmRw \in BOOLEAN : FinishCcmConfig(iccmRw)
  \/ \E h \in Harts, inst \in {"lr", "amo"} : Start(h, inst)
  \/ \E h \in Harts : LrAcquire(h)
  \/ \E h \in Harts : LoadReserve(h)
  \/ \E h \in Harts : ScAcquire(h)
  \/ \E h \in Harts : ScCheck(h)
  \/ \E h \in Harts : ScWrite(h)
  \/ \E h \in Harts : ScWriteCascade(h)
  \/ \E h \in Harts : ScClear(h)
  \/ \E h \in Harts : AmoAcquire(h)
  \/ \E h \in Harts : AmoLoadStore(h)
  \/ \E h \in Harts : AmoLrAcquire(h)
  \/ \E h \in Harts : AmoInvalidate(h)
  \/ \E h \in Harts : AmoRelease(h)

SpecExec == Init /\ [][NextExec]_vars

\* Both harts completed their lr before either began its sc, and both
\* store-conditionals are over.
LrBeforeSc(h1, h2) ==
  /\ hartPc[h1] = "scDone" /\ hartPc[h2] = "scDone"
  /\ h2 \notin lrAfter[h1] /\ h1 \notin lrAfter[h2]

\* C25 (as stated): of two harts that both completed an lr on the same
\* address before either began its sc, at most one sc performs its write,
\* the sc being has_lr, the write, and the clearing of the own reservation.
C25_AtMostOneScWrites ==
  \A h1 \in Harts, h2 \in Harts :
    h1 # h2 /\ LrBeforeSc(h1, h2) => ~(scWrote[h1] /\ scWrote[h2])

\* C25 (amended): of two harts that both completed an lr on the same
\* address before either began its sc, at most one sc performs its write
\* when every sc that writes calls invalidate_other_hart_lr after its
\* write, under lrMutex_; write alone leaves the other hart's reservation
\* valid.
C25_AtMostOneCascadingScWrites ==
  \A h1 \in Harts, h2 \in Harts :
    /\ h1 # h2
    /\ LrBeforeSc(h1, h2)
    /\ scWrote[h1] => scCascaded[h1]
    /\ scWrote[h2] => scCascaded[h2]
    => ~(scWrote[h1] /\ scWrote[h2])

C25_Witness ==
  \E h1 \in Harts, h2 \in Harts :
    /\ h1 # h2
    /\ LrBeforeSc(h1, h2)
    /\ scWrote[h1] /\ scCascaded[h1]
    /\ ~scWrote[h2]

\* C26: no hart asks for amoMutex_ while it holds lrMutex_; a hart holds
\* both only inside an AMO that took amoMutex_ first; and the harts never
\* block each other for good: while some hart has not finished, some hart
\* can take a step.
C26_AmoBeforeLr ==
  /\ \A h \in Harts : hartPc[h] = "amoWait" => lrMutex # h
  /\ \A h \in Harts :
       lrMutex = h /\ amoMutex = h => hartPc[h] = "amoInvalidate"
  /\ (\E h \in Harts : hartPc[h] \notin DonePcs) => \E h \in Harts : Runnable(h)

C26_Witness ==
  \E h1 \in Harts, h2 \in Harts :
    /\ amoMutex = h1 /\ hartPc[h1] = "amoLrWait"
    /\ lrMutex = h2 /\ hartPc[h2] = "scWrite"

----------------------------------------------------------------------------
(* The simulator front-end (whisper.cpp).  A command line is what the
   option parser, the loaders and fopen make of it: whether parsing
   throws, whether --help was given, whether a --startpc, --endpc or
   --tohost value fails to parse, whether an ELF or HEX file is named and
   loads, the register initialisations and disassemble codes in order,
   --interactive, and whether a trace file is named and opens; the
   --tohost, --startpc and --endpc values that parsed; and the entry point,
   exit point and to-host address the loader finds in the ELF file. *)

MaxArgs == 2

FileOutcomes == {"none", "ok", "fails"}

RegInitKinds == {"ok", "malformed", "badValue", "noSuchReg"}

CodeKinds == {"ok", "bad"}

SeqsUpTo(S, n) == UNION {[1..k -> S] : k \in 0..n}

\* Every kind of command line with the given ELF files, number options and
\* ELF contents.
CmdLinesWith(elfFiles, o, e) ==
  [exception : BOOLEAN, help : BOOLEAN, badNumber : BOOLEAN,
   elfFile : elfFiles, hexFile : FileOutcomes,
   regInits : SeqsUpTo(RegInitKinds, MaxArgs),
   codes : SeqsUpTo(CodeKinds, MaxArgs),
   interactive : BOOLEAN, traceFile : FileOutcomes,
   hasToHost : {o.hasToHost}, toHost : {o.toHost},
   hasStartPc : {o.hasStartPc}, startPc : {o.startPc},
   hasEndPc : {o.hasEndPc}, endPc : {o.endPc},
   entryPoint : {e.entryPoint}, exitPoint : {e.exitPoint},
   elfHasToHost : {e.elfHasToHost}, elfToHost : {e.elfToHost}]

\* Every kind of command line, each with and without --startpc, over an ELF
\* file that has an entry point, an exit point and a to-host address.
OkElf ==
  [entryPoint |-> 4, exitPoint |-> 8, elfHasToHost |-> TRUE, elfToHost |-> 12]

CmdLines ==
  LET startPc == [NoNumbers EXCEPT !.hasStartPc = TRUE, !.startPc = 20]
  IN  CmdLinesWith({"ok"}, NoNumbers, OkElf)
        \cup CmdLinesWith({"ok"}, startPc, OkElf)
        \cup CmdLinesWith({"none", "fails"}, NoNumbers, NoElf)
        \cup CmdLinesWith({"none", "fails"}, startPc, NoElf)

\* The number options: each absent, or given as 0 or as a value no ELF file
\* here supplies.
NumberOptions ==
  {o \in [hasToHost : BOOLEAN, toHost : {0, 16}, hasStartPc : BOOLEAN,
          startPc : {0, 20}, hasEndPc : BOOLEAN, endPc : {0, 24}] :
     /\ ~o.hasToHost => o.toHost = 0
     /\ ~o.hasStartPc => o.startPc = 0
     /\ ~o.hasEndPc => o.endPc = 0}

\* What loadElfFile can find in a file: an entry point, an exit point or
\* none (0), a to-host address or none.
ElfContents ==
  {e \in [entryPoint : {0, 4}, exitPoint : {0, 8}, elfHasToHost : BOOLEAN,
          elfToHost : {0, 12}] : ~e.elfHasToHost => e.elfToHost = 0}

\* The command lines that differ in what reaches the core: the number
\* options and the ELF file, with and without a number that fails to parse,
\* a bad register initialisation and --interactive.
CoreCmdLines ==
  {a \in {b @@ o @@ e :
            b \in [exception : {FALSE}, help : {FALSE}, badNumber : BOOLEAN,
                   elfFile : FileOutcomes, hexFile : {"none"},
                   regInits : {<< >>, <<"malformed">>}, codes : {<< >>},
                   interactive : BOOLEAN, traceFile : {"none"}],
            o \in NumberOptions, e \in ElfContents} :
     a.elfFile # "ok" => \A f \in DOMAIN NoElf : a[f] = NoElf[f]}

parseCmdLineArgs(a) ==
  IF a.exception THEN [ok |-> FALSE, help |-> FALSE]
  ELSE IF a.help THEN [ok |-> TRUE, help |-> TRUE]
  ELSE [ok |-> ~a.badNumber, help |-> FALSE]

RECURSIVE RegInitLoop(_, _, _)
RegInitLoop(regInits, i, ok) ==
  IF i > Len(regInits) THEN ok
  ELSE RegInitLoop(regInits, i + 1, ok /\ regInits[i] = "ok")

applyCmdLineRegInit(a) == RegInitLoop(a.regInits, 1, TRUE)

RECURSIVE DisassLoop(_, _, _)
DisassLoop(codes, i, errors) ==
  IF i > Len(codes) THEN errors
  ELSE DisassLoop(codes, i + 1, IF codes[i] = "bad" THEN errors + 1 ELSE errors)

\* Core's setters (Core is not among the sources) are assignments.
pokePc(core, address) == [core EXCEPT !.pc = address]

setToHostAddress(core, address) ==
  [core EXCEPT !.hasToHost = TRUE, !.toHost = address]

setStopAddress(core, address) ==
  [core EXCEPT !.hasStop = TRUE, !.stopAddr = address]

\* if (not args.elfFile.empty()) ...: nothing is set when the load fails.
ApplyElf(a, core) ==
  IF a.elfFile # "ok" THEN core
  ELSE LET c1 == pokePc(core, a.entryPoint)
           c2 == IF a.elfHasToHost THEN setToHostAddress(c1, a.elfToHost) ELSE c1
       IN  IF a.exitPoint # 0 THEN setStopAddress(c2, a.exitPoint) ELSE c2

ApplyOverrides(a, core) ==
  LET c1 == IF a.hasToHost THEN setToHostAddress(core, a.toHost) ELSE core
      c2 == IF a.hasStartPc THEN pokePc(c1, a.startPc) ELSE c1
  IN  IF a.hasEndPc THEN setStopAddress(c2, a.endPc) ELSE c2

\* The file with the given entry and exit point as the memory's loader
\* sees it: one segment from the entry point to the exit point, the address
\* past its last byte.
ElfImage(exists, e) ==
  [exists |-> exists, class |-> 32, entry |-> e.entryPoint,
   segments |-> IF e.exitPoint > e.entryPoint
                  THEN <<[vaddr |-> e.entryPoint,
                          bytes |-> [i \in 1 .. (e.exitPoint - e.entryPoint) |-> 19]]>>
                  ELSE << >>]

\* A hex file of one byte, for address 0.
HexImage(exists) ==
  [exists |-> exists, tokens |-> <<[at |-> FALSE, value |-> 17]>>]

\* What applyCmdLineArgs does to the memory: core.loadElfFile, then
\* core.loadHexFile, each when a file is named.
applyCmdLineMem(a, m, check) ==
  LET m1 == IF a.elfFile = "none" THEN m
            ELSE loadElfFile(m, ElfImage(a.elfFile = "ok", a), 32, check).mem
  IN  IF a.hexFile = "none" THEN m1
      ELSE loadHexFile(m1, HexImage(a.hexFile = "ok")).mem

\* Mutant: the ELF file is applied after the command line's values.
applyCmdLineCore_elfLast(a, core) == ApplyElf(a, ApplyOverrides(a, core))

\* What applyCmdLineArgs does to the core: the ELF file's entry point,
\* to-host address and exit point first, then the command line's; it does
\* so whatever it returns.
applyCmdLineCore(a, core) == ApplyOverrides(a, ApplyElf(a, core))

\* The function returns bool: its "return 1" after a failed register
\* initialisation is a return of true.
applyCmdLineArgs(a) ==
  LET elfErrors == IF a.elfFile = "fails" THEN 1 ELSE 0
      hexErrors == IF a.hexFile = "fails" THEN 1 ELSE 0
  IN  IF ~applyCmdLineRegInit(a) THEN TRUE
      ELSE DisassLoop(a.codes, 1, elfErrors + hexErrors) = 0

\* What main and the commands of the interactive session leave alone.
FrontEndFrame ==
  UNCHANGED <<phase, pagePmas, mmrMasks, behind, reservations, last, pre,
              nOps, recent, execVars, instIds, snapVars, disass,
              checkUnmappedElf_>>

\* A step of main that leaves the core and the memory as they are.
MainFrame ==
  /\ UNCHANGED <<cmdLine, coreRun, data, lastWriteData>>
  /\ FrontEndFrame

Return(code) ==
  /\ mainPc' = "exited"
  /\ exitCode' = code
  /\ MainFrame

Goto(pc) ==
  /\ mainPc' = pc
  /\ UNCHANGED exitCode
  /\ MainFrame

\* main is started with one of the given command lines.
InvokeWith(cmdLines) ==
  /\ mainPc = "none"
  /\ cmdLine' \in cmdLines
  /\ mainPc' = "parse"
  /\ UNCHANGED <<exitCode, coreRun, data, lastWriteData>>
  /\ FrontEndFrame

Invoke == InvokeWith(CmdLines)

MainParse ==
  /\ mainPc = "parse"
  /\ LET r == parseCmdLineArgs(cmdLine)
     IN  IF ~r.ok THEN Return(1)
         ELSE IF r.help THEN Return(0)
         ELSE Goto("apply")

\* if (not applyCmdLineArgs(args, core)) if (not args.interactive) return 1:
\* the core is set and the files are loaded before the function returns.
MainApply ==
  /\ mainPc = "apply"
  /\ coreRun' = [applied |-> TRUE,
                 core |-> applyCmdLineCore(cmdLine, coreRun.core)]
  /\ data' = applyCmdLineMem(cmdLine, Mem, checkUnmappedElf_).data
  /\ IF ~applyCmdLineArgs(cmdLine) /\ ~cmdLine.interactive
       THEN mainPc' = "exited" /\ exitCode' = 1
       ELSE mainPc' = "program" /\ UNCHANGED exitCode
  /\ UNCHANGED <<cmdLine, lastWriteData>>
  /\ FrontEndFrame

MainProgram ==
  /\ mainPc = "program"
  /\ IF /\ cmdLine.hexFile = "none"
        /\ cmdLine.elfFile = "none"
        /\ ~cmdLine.interactive
       THEN Return(1)
     ELSE Goto("trace")

MainTrace ==
  /\ mainPc = "trace"
  /\ IF cmdLine.traceFile = "fails" THEN Return(1) ELSE Goto("run")

\* The core and the memory after a step that changes them; pc is where
\* main stands then.
CoreStep(pc, core, m) ==
  /\ mainPc' = pc
  /\ coreRun' = [coreRun EXCEPT !.core = core]
  /\ data' = m.data
  /\ lastWriteData' = m.lwd
  /\ UNCHANGED <<cmdLine, exitCode>>
  /\ FrontEndFrame

\* Where a run can leave the pc: at one of the given addresses, at the stop
\* address when there is one, or where the program ends (28).
RunPcs(core, addrs) ==
  addrs \cup {28} \cup (IF core.hasStop THEN {core.stopAddr} ELSE {})

\* The program's store, if it has one: a byte, by hart 0.
ProgramStore == [addr |-> pageSize_, value |-> <<34>>]

RunMems(m) ==
  {m, write(m, 0, ProgramStore.addr, 1, ProgramStore.value, 0).mem}

\* core.run and core.runUntilAddress (Core is not among the sources): the
\* program runs, the pc ends at one of pcs, the program's stores are in the
\* memory.
CoreRuns(pc, pcs) ==
  \E p \in pcs, m \in RunMems(Mem) : CoreStep(pc, pokePc(coreRun.core, p), m)

\* if (args.interactive) interact(core, file); else core.run(file);
MainRun ==
  /\ mainPc = "run"
  /\ IF cmdLine.interactive THEN Goto("interact")
     ELSE CoreRuns("close", RunPcs(coreRun.core, {}))

\* fclose and return 0.
MainClose ==
  /\ mainPc = "close"
  /\ Return(0)

\* The interactive session: interact waits for a line (linenoise) and
\* executes it.  "r...": core.run().
InteractRun ==
  /\ mainPc = "interact"
  /\ CoreRuns("interact", RunPcs(coreRun.core, {}))

\* The address of the until command.
UntilAddrs == {32}

\* "u...": untilCommand; an address that does not parse runs nothing.
InteractUntil ==
  /\ mainPc = "interact"
  /\ \E parsed \in BOOLEAN, addr \in UntilAddrs :
       IF parsed THEN CoreRuns("interact", RunPcs(coreRun.core, {addr}))
       ELSE Goto("interact")

\* The poke commands: of the pc, of the word at an address, of a resource
\* that does not exist.
PokeCommands ==
  {[resource |-> "pc", value |-> 64], [resource |-> "memory", value |-> 0],
   [resource |-> "none", value |-> 0]}

\* "poke resource value": pokeCommand.  "pc": core.pokePc(value); an
\* address: core.pokeMemory(addr, value), a poke of a word (the pattern) into
\* the memory; no such resource: nothing.  (The registers are left out.)
InteractPoke ==
  /\ mainPc = "interact"
  /\ \E c \in PokeCommands :
       CASE c.resource = "pc" ->
              CoreStep("interact", pokePc(coreRun.core, c.value), Mem)
         [] c.resource = "memory" ->
              CoreStep("interact", coreRun.core,
                       poke(Mem, c.value, 4, Value(4)).mem)
         [] OTHER -> Goto("interact")

\* What elfCommand does to the core once the file is loaded.
elfCommandCore(e, core) ==
  LET c1 == pokePc(core, e.entryPoint)
      c2 == IF e.exitPoint # 0 THEN setStopAddress(c1, e.exitPoint) ELSE c1
  IN  IF e.elfHasToHost THEN setToHostAddress(c2, e.elfToHost) ELSE c2

\* "e...": elfCommand; a file that does not load changes nothing.
InteractElf ==
  /\ mainPc = "interact"
  /\ \E exists \in BOOLEAN :
       LET r == loadElfFile(Mem, ElfImage(exists, OkElf), 32, checkUnmappedElf_)
       IN  IF r.ok
             THEN CoreStep("interact", elfCommandCore(OkElf, coreRun.core), r.mem)
           ELSE Goto("interact")

\* "q...", or the end of the input: interact returns.
InteractQuit ==
  /\ mainPc = "interact"
  /\ Goto("close")

\* The session's steps; peek, disass, help and any other line leave the core
\* and the memory as they are.
Interact ==
  \/ InteractRun
  \/ InteractUntil
  \/ InteractPoke
  \/ InteractElf
  \/ InteractQuit

NextFrontEnd ==
  \/ Invoke
  \/ MainParse
  \/ MainApply
  \/ MainProgram
  \/ MainTrace
  \/ MainRun
  \/ MainClose
  \/ Interact

SpecFrontEnd == Init /\ [][NextFrontEnd]_vars

\* The errors of a command line: a parse error, and unless --help ends
\* the run at once, a failing ELF or HEX load, an invalid register
\* initialisation, an invalid disassemble code, no program file, a trace
\* file that cannot be opened.
ConfigError(a) ==
  \/ a.exception
  \/ /\ ~a.help
     /\ \/ a.badNumber
        \/ a.elfFile = "fails"
        \/ a.hexFile = "fails"
        \/ \E i \in DOMAIN a.regInits : a.regInits[i] # "ok"
        \/ \E i \in DOMAIN a.codes : a.codes[i] = "bad"
        \/ a.elfFile = "none" /\ a.hexFile = "none"
        \/ a.traceFile = "fails"

\* C27: without --interactive, main returns 1 when the command line has
\* an error and 0 when it has none.
C27_ExitOneIffError ==
  mainPc = "exited" /\ ~cmdLine.interactive
    => exitCode = (IF ConfigError(cmdLine) THEN 1 ELSE 0)

\* main over the command lines that differ in what reaches the core.
InvokeCore == InvokeWith(CoreCmdLines)

NextCore ==
  \/ InvokeCore
  \/ MainParse
  \/ MainApply
  \/ MainProgram
  \/ MainTrace
  \/ MainRun
  \/ MainClose
  \/ Interact

SpecCore == Init /\ [][NextCore]_vars

\* C33: after applyCmdLineArgs the pc is the --startpc value, the stop
\* address the --endpc value and the to-host address the --tohost value,
\* each when given, whatever the ELF file supplied.
AfterApply ==
  /\ coreRun.applied
  /\ mainPc \in {"program", "trace", "run"} \/ (mainPc = "exited" /\ exitCode = 1)

C33_CommandLineOverridesElf ==
  AfterApply =>
    LET c == coreRun.core
    IN  /\ cmdLine.hasStartPc => c.pc = cmdLine.startPc
        /\ cmdLine.hasEndPc => c.hasStop /\ c.stopAddr = cmdLine.endPc
        /\ cmdLine.hasToHost => c.hasToHost /\ c.toHost = cmdLine.toHost

\* An ELF file that loaded and supplied all three, and a command line that
\* gives three other values.
C33_Witness ==
  /\ AfterApply
  /\ cmdLine.elfFile = "ok" /\ cmdLine.elfHasToHost
  /\ cmdLine.exitPoint # 0
  /\ cmdLine.hasStartPc /\ cmdLine.hasEndPc /\ cmdLine.hasToHost
  /\ cmdLine.startPc # cmdLine.entryPoint
  /\ cmdLine.endPc # cmdLine.exitPoint
  /\ cmdLine.toHost # cmdLine.elfToHost
  /\ coreRun.core.pc = cmdLine.startPc

----------------------------------------------------------------------------
(* The instruction identities (InstId.hpp).  The enumerators are numbered
   in declaration order as the language numbers them: an enumerator with
   an initialiser gets the initialiser's value, the first one without gets
   0, any other one more than its predecessor. *)

\* The enumerators declared without an initialiser, in declaration order.
InstIdNames ==
  <<
   "illegal", "lui", "auipc", "jal", "jalr", "beq", "bne", "blt", "bge",
   "bltu", "bgeu", "lb", "lh", "lw", "lbu", "lhu", "sb", "sh", "sw",
   "addi", "slti", "sltiu", "xori", "ori", "andi", "slli", "srli", "srai",
   "add", "sub", "sll", "slt", "sltu", "xor_", "srl", "sra", "or_",
   "and_", "fence", "fencei", "ecall", "ebreak", "csrrw", "csrrs",
   "csrrc", "csrrwi", "csrrsi", "csrrci", "lwu", "ld", "sd", "addiw",
   "slliw", "srliw", "sraiw", "addw", "subw", "sllw", "srlw", "sraw",
   "mul", "mulh", "mulhsu", "mulhu", "div", "divu", "rem", "remu", "mulw",
   "divw", "divuw", "remw", "remuw", "lr_w", "sc_w", "amoswap_w",
   "amoadd_w", "amoxor_w", "amoand_w", "amoor_w", "amomin_w", "amomax_w",
   "amominu_w", "amomaxu_w", "lr_d", "sc_d", "amoswap_d", "amoadd_d",
   "amoxor_d", "amoand_d", "amoor_d", "amomin_d", "amomax_d", "amominu_d",
   "amomaxu_d", "flw", "fsw", "fmadd_s", "fmsub_s", "fnmsub_s",
   "fnmadd_s", "fadd_s", "fsub_s", "fmul_s", "fdiv_s", "fsqrt_s",
   "fsgnj_s", "fsgnjn_s", "fsgnjx_s", "fmin_s", "fmax_s", "fcvt_w_s",
   "fcvt_wu_s", "fmv_x_w", "feq_s", "flt_s", "fle_s", "fclass_s",
   "fcvt_s_w", "fcvt_s_wu", "fmv_w_x", "fcvt_l_s", "fcvt_lu_s",
   "fcvt_s_l", "fcvt_s_lu", "fld", "fsd", "fmadd_d", "fmsub_d",
   "fnmsub_d", "fnmadd_d", "fadd_d", "fsub_d", "fmul_d", "fdiv_d",
   "fsqrt_d", "fsgnj_d", "fsgnjn_d", "fsgnjx_d", "fmin_d", "fmax_d",
   "fcvt_s_d", "fcvt_d_s", "feq_d", "flt_d", "fle_d", "fclass_d",
   "fcvt_w_d", "fcvt_wu_d", "fcvt_d_w", "fcvt_d_wu", "fcvt_l_d",
   "fcvt_lu_d", "fmv_x_d", "fcvt_d_l", "fcvt_d_lu", "fmv_d_x", "mret",
   "uret", "sret", "wfi", "sfence_vma", "c_addi4spn", "c_fld", "c_lq",
   "c_lw", "c_flw", "c_ld", "c_fsd", "c_sq", "c_sw", "c_fsw", "c_sd",
   "c_addi", "c_jal", "c_li", "c_addi16sp", "c_lui", "c_srli", "c_srli64",
   "c_srai", "c_srai64", "c_andi", "c_sub", "c_xor", "c_or", "c_and",
   "c_subw", "c_addw", "c_j", "c_beqz", "c_bnez", "c_slli", "c_slli64",
   "c_fldsp", "c_lwsp", "c_flwsp", "c_ldsp", "c_jr", "c_mv", "c_ebreak",
   "c_jalr", "c_add", "c_fsdsp", "c_swsp", "c_fswsp", "c_addiw", "c_sdsp",
   "clz", "ctz", "pcnt", "andn", "orn", "xnor", "slo", "sro", "sloi",
   "sroi", "min", "max", "minu", "maxu", "rol", "ror", "rori", "rev8",
   "rev", "pack", "addwu", "subwu", "addiwu", "sext_b", "sext_h",
   "addu_w", "subu_w", "slliu_w", "packh", "packu", "packw", "packuw",
   "grev", "grevi", "gorc", "gorci", "shfl", "shfli", "unshfl", "unshfli",
   "sbset", "sbclr", "sbinv", "sbext", "sbseti", "sbclri", "sbinvi",
   "sbexti", "bdep", "bext", "bfp", "clmul", "clmulh", "clmulr", "sh1add",
   "sh2add", "sh3add", "sh1addu_w", "sh2addu_w", "sh3addu_w", "crc32_b",
   "crc32_h", "crc32_w", "crc32_d", "crc32c_b", "crc32c_h", "crc32c_w",
   "crc32c_d", "bmator", "bmatxor", "bmatflip", "cmov", "cmix", "fsl",
   "fsr", "fsri", "vadd_vv", "vadd_vx", "vadd_vi", "vsub_vv", "vsub_vx",
   "vrsub_vx", "vrsub_vi", "vminu_vv", "vminu_vx", "vmin_vv", "vmin_vx",
   "vmaxu_vv", "vmaxu_vx", "vmax_vv", "vmax_vx", "vand_vv", "vand_vx",
   "vand_vi", "vor_vv", "vor_vx", "vor_vi", "vxor_vv", "vxor_vx",
   "vxor_vi", "vrgather_vv", "vrgather_vx", "vrgather_vi"
  >>

\* Mutant: the sentinel is declared without its initialiser.
Enumerators_plainSentinel ==
  [i \in 1..(Len(InstIdNames) + 1) |->
     IF i <= Len(InstIdNames) THEN [name |-> InstIdNames[i], init |-> ""]
     ELSE [name |-> "maxId", init |-> ""]]

Enumerators ==
  [i \in 1..(Len(InstIdNames) + 1) |->
     IF i <= Len(InstIdNames) THEN [name |-> InstIdNames[i], init |-> ""]
     ELSE [name |-> "maxId", init |-> "vrgather_vi"]]

\* The value of a declared enumerator.
IdOf(ids, name) ==
  ids[CHOOSE i \in DOMAIN ids : ids[i].name = name].id

EnumeratorId(ids, e) ==
  IF e.init # "" THEN IdOf(ids, e.init)
  ELSE IF ids = << >> THEN 0
  ELSE ids[Len(ids)].id + 1

DeclareEnumerator ==
  /\ Len(instIds) < Len(Enumerators)
  /\ LET e == Enumerators[Len(instIds) + 1]
     IN  instIds' = Append(instIds, [name |-> e.name, id |-> EnumeratorId(instIds, e)])
  /\ UNCHANGED <<phase, pagePmas, mmrMasks, data, behind, lastWriteData,
                 reservations, last, pre, nOps, recent, execVars, feVars,
                 snapVars, disass, coreRun, checkUnmappedElf_>>

NextInstId == DeclareEnumerator

SpecInstId == Init /\ [][NextInstId]_vars

\* The identities: every enumerator but the sentinel.
Identities == {i \in DOMAIN instIds : instIds[i].name # "maxId"}

\* C28: once the enumeration is declared, illegal is its first enumerator
\* and no identifier is smaller than its own; the identities are numbered
\* consecutively in declaration order, hence distinct; maxId is the
\* identifier of vrgather_vi, the last identity; every identifier lies
\* between illegal's and maxId.
C28_InstIdNumbering ==
  Len(instIds) = Len(Enumerators) =>
    LET illegal == IdOf(instIds, "illegal")
        maxId   == IdOf(instIds, "maxId")
        lastIx  == CHOOSE i \in Identities : \A j \in Identities : j <= i
    IN  /\ instIds[1].name = "illegal"
        /\ \A i \in Identities : instIds[i].id = illegal + (i - 1)
        /\ \A i \in Identities, j \in Identities :
             i # j => instIds[i].id # instIds[j].id /\ instIds[i].name # instIds[j].name
        /\ instIds[lastIx].name = "vrgather_vi"
        /\ maxId = instIds[lastIx].id
        /\ \A i \in DOMAIN instIds : illegal <= instIds[i].id /\ instIds[i].id <= maxId

C28_Witness ==
  /\ Len(instIds) = Len(Enumerators)
  /\ instIds[Len(instIds)].name = "maxId"
  /\ instIds[Len(instIds)].id = Len(InstIdNames) - 1

----------------------------------------------------------------------------
(* The configuration with every area: each of the three kinds of area is
   tried at every address and size, aligned or not, in any order, and the
   run that follows stores bytes. *)

ConfigAreas == [addr : 0 .. (size_ - 1), size : 1 .. size_]

NextConfig ==
  \/ \E ar \in ConfigAreas : DefineIccm(ar.addr, ar.size)
  \/ \E ar \in ConfigAreas : DefineDccm(ar.addr, ar.size)
  \/ \E ar \in ConfigAreas : DefineMemoryMappedRegisterArea(ar.addr, ar.size)
  \/ \E iccmRw \in BOOLEAN : FinishCcmConfig(iccmRw)
  \/ \E h \in Harts, a \in ByteAddrs : WriteByte(h, a)
  \/ \E a \in ByteAddrs : PokeByte(a)

SpecConfig == Init /\ [][NextConfig]_vars

\* C29: at all times every page is mapped exactly when one of read, write
\* and exec is set; a register page is neither ICCM nor DCCM; an ICCM page
\* is executable; a DCCM page is readable.
C29_PmaInvariants ==
  \A p \in Pages :
    LET pma == pagePmas[p]
    IN  /\ isMapped(pma) <=> (isRead(pma) \/ isWrite(pma) \/ isExec(pma))
        /\ pma.reg => ~pma.iccm /\ ~pma.dccm
        /\ pma.iccm => pma.exec
        /\ pma.dccm => pma.read

C29_Witness ==
  /\ phase = "run"
  /\ last.op = "writeByte" /\ last.ok
  /\ \E p \in Pages : pagePmas[p].iccm /\ pagePmas[p].write
  /\ \E p \in Pages : pagePmas[p].dccm
  /\ \E p \in Pages : pagePmas[p].reg

----------------------------------------------------------------------------
(* Snapshot I/O (Memory.cpp is not among the sources; modelled from the
   specification, sections 4.7 and 6).  A snapshot file is the raw
   concatenation of the bytes of the ranges [lo, hi), in the order
   supplied.  One path is modelled. *)

RangesFit(ranges) ==
  \A i \in DOMAIN ranges : ranges[i].lo <= ranges[i].hi /\ ranges[i].hi <= size_

RangeSize(r) == r.hi - r.lo

RECURSIVE RangesSize(_)
RangesSize(ranges) ==
  IF ranges = << >> THEN 0
  ELSE RangeSize(Head(ranges)) + RangesSize(Tail(ranges))

RECURSIVE SnapshotBytes(_, _)
SnapshotBytes(m, ranges) ==
  IF ranges = << >> THEN << >>
  ELSE LoadBytes(m, Head(ranges).lo, RangeSize(Head(ranges)), 0)
         \o SnapshotBytes(m, Tail(ranges))

\* Mutant: every range is read from the start of the file.
RECURSIVE LoadRanges_rewinding(_, _, _)
LoadRanges_rewinding(m, bytes, ranges) ==
  IF ranges = << >> THEN m
  ELSE LET n == RangeSize(Head(ranges))
       IN  LoadRanges_rewinding(StoreBytes(m, Head(ranges).lo, SubSeq(bytes, 1, n)),
                                bytes, Tail(ranges))

\* The ranges are filled in order from the bytes that remain.
RECURSIVE LoadRanges(_, _, _)
LoadRanges(m, bytes, ranges) ==
  IF ranges = << >> THEN m
  ELSE LET n == RangeSize(Head(ranges))
       IN  LoadRanges(StoreBytes(m, Head(ranges).lo, SubSeq(bytes, 1, n)),
                      SubSeq(bytes, n + 1, Len(bytes)), Tail(ranges))

saveSnapshot(m, file, ranges) ==
  IF ~RangesFit(ranges) THEN [ok |-> FALSE, file |-> file]
  ELSE [ok |-> TRUE, file |-> [exists |-> TRUE, bytes |-> SnapshotBytes(m, ranges)]]

loadSnapshot(m, file, ranges) ==
  IF ~file.exists \/ ~RangesFit(ranges) THEN Failed(m)
  ELSE IF Len(file.bytes) # RangesSize(ranges) THEN Failed(m)
  ELSE [ok |-> TRUE, mem |-> LoadRanges(m, file.bytes, ranges)]

MaxSnaps == 3

\* The range lists the snapshot calls are tried with: one range, two
\* overlapping ranges in either order, an empty range before a range of
\* the same total size as the first list, a range that runs out of bounds.
SnapRangeLists ==
  { <<[lo |-> 0, hi |-> 3]>>,
    <<[lo |-> 0, hi |-> 3], [lo |-> 1, hi |-> 3]>>,
    <<[lo |-> 1, hi |-> 3], [lo |-> 0, hi |-> 3]>>,
    <<[lo |-> 1, hi |-> 1], [lo |-> 1, hi |-> 4]>>,
    <<[lo |-> 3, hi |-> size_ + 1]>> }

SnapAccesses == {[addr |-> 0, size |-> 4], [addr |-> 1, size |-> 2]}

SnapshotFrame ==
  /\ phase = "run"
  /\ nSnaps < MaxSnaps
  /\ nSnaps' = nSnaps + 1
  /\ pre' = Mem
  /\ UNCHANGED <<phase, pagePmas, mmrMasks, behind, lastWriteData,
                 reservations, nOps, recent, execVars, feVars, instIds,
                 disass, coreRun, checkUnmappedElf_>>

SaveSnapshot(ranges) ==
  /\ LET r == saveSnapshot(Mem, snapFile, ranges)
     IN  /\ snapFile' = r.file
         /\ snapSaved' = IF r.ok
                           THEN [valid |-> TRUE, ranges |-> ranges, data |-> data]
                           ELSE snapSaved
         /\ last' = [NoOp EXCEPT !.op = "saveSnapshot", !.ok = r.ok]
  /\ snapArgs' = ranges
  /\ UNCHANGED data
  /\ SnapshotFrame

LoadSnapshot(ranges) ==
  /\ LET r == loadSnapshot(Mem, snapFile, ranges)
     IN  /\ data' = r.mem.data
         /\ last' = [NoOp EXCEPT !.op = "loadSnapshot", !.ok = r.ok]
  /\ snapArgs' = ranges
  /\ UNCHANGED <<snapFile, snapSaved>>
  /\ SnapshotFrame

NextSnapshot ==
  \/ \E iccmRw \in BOOLEAN : FinishCcmConfig(iccmRw)
  \/ \E h \in Harts : WriteByte(h, 0)
  \/ \E s \in SnapAccesses : Poke(s.addr, s.size)
  \/ \E ranges \in SnapRangeLists : SaveSnapshot(ranges)
  \/ \E ranges \in SnapRangeLists : LoadSnapshot(ranges)

SpecSnapshot == Init /\ [][NextSnapshot]_vars

\* C30: a load_snapshot with the ranges of the save_snapshot that wrote the
\* file succeeds, whatever was written and poked in between, and leaves
\* every byte of every range [lo, hi) at the value it had when saved.
C30_LoadRestoresSavedRanges ==
  last.op = "loadSnapshot" /\ snapSaved.valid /\ snapArgs = snapSaved.ranges
    => /\ last.ok
       /\ \A i \in DOMAIN snapArgs :
            \A a \in snapArgs[i].lo .. (snapArgs[i].hi - 1) :
               data[a] = snapSaved.data[a]

\* Two overlapping ranges, saved after a store and restored over a poke
\* that changed one of their bytes.
C30_Witness ==
  /\ last.op = "loadSnapshot" /\ last.ok
  /\ snapArgs = snapSaved.ranges
  /\ snapArgs = <<[lo |-> 0, hi |-> 3], [lo |-> 1, hi |-> 3]>>
  /\ \E a \in 0 .. 2 : snapSaved.data[a] # 0
  /\ \E a \in 0 .. 2 : pre.data[a] # data[a]

----------------------------------------------------------------------------
(* The byte operations against the generic ones at width 1 *)

\* C31: in every state, at every address, readByte gives the success flag
\* and value of read<uint8_t>, and writeByte gives the success flag, the
\* backing store, the last-write slots and the reservations of
\* write<uint8_t>, for every hart and value.
C31_ByteOpsAreWidthOne ==
  \A a \in Addrs :
    /\ \A junk \in Junk : readByte(Mem, a) = read(Mem, a, 1, junk)
    /\ \A h \in Harts, v \in {<<0>>, Value(1)}, junk \in Junk :
         writeByte(Mem, h, a, v) = write(Mem, h, a, 1, v, junk)

\* writeByte has just stored what a one-byte write stores, and a writable
\* register page, where both refuse a byte, is configured.
C31_Witness ==
  /\ last.op = "writeByte" /\ last.ok
  /\ write(pre, last.hart, last.addr, 1, last.value, 0).mem = Mem
  /\ readByte(Mem, last.addr) = [ok |-> TRUE, value |-> last.value]
  /\ \E a \in Addrs :
       /\ isWrite(getPma(a)) /\ isMemMappedReg(getPma(a))
       /\ ~writeByte(Mem, last.hart, a, last.value).ok

----------------------------------------------------------------------------
(* The interactive command "disass a1 a2" (whisper.cpp, disassCommand).
   Addresses are of type URV, UrvBits wide: addr += 2 and addr += 4 wrap.
   core.peekMemory is not among the sources: whether it succeeds and
   whether the word it returns is a 32-bit instruction (low two bits 11)
   or a compressed one is an input of each iteration. *)

UrvBits == 4

UrvMod == 2 ^ UrvBits

PeekOutcomes == {"fails", "compressed", "word"}

DisassFrame ==
  UNCHANGED <<phase, pagePmas, mmrMasks, data, behind, lastWriteData,
              reservations, last, pre, nOps, recent, execVars, feVars,
              instIds, snapVars, coreRun, checkUnmappedElf_>>

\* Both addresses parsed: the for loop starts at addr1.
DisassCommand(a1, a2) ==
  /\ disass.pc = "none"
  /\ disass' = [pc |-> "loop", addr1 |-> a1, addr2 |-> a2, addr |-> a1,
                printed |-> -1, ok |-> FALSE]
  /\ DisassFrame

\* One evaluation of the loop condition and, when it holds, of the body.
DisassStep(peek) ==
  /\ disass.pc = "loop"
  /\ disass' =
       IF ~(disass.addr <= disass.addr2)
         THEN [disass EXCEPT !.pc = "done", !.ok = TRUE]
       ELSE IF peek = "fails"
         THEN [disass EXCEPT !.pc = "done", !.ok = FALSE]
       ELSE [disass EXCEPT
               !.printed = disass.addr,
               !.addr = (disass.addr + (IF peek = "word" THEN 4 ELSE 2)) % UrvMod]
  /\ DisassFrame

NextDisass ==
  \/ \E a1 \in 0 .. (UrvMod - 1), a2 \in 0 .. (UrvMod - 1) : DisassCommand(a1, a2)
  \/ \E peek \in PeekOutcomes : DisassStep(peek)

SpecDisass == Init /\ [][NextDisass]_vars

\* C32: the addresses disassembled lie between a1 and a2 and ascend
\* strictly: the loop never comes back to an address at or below the one it
\* printed last, so it ends after at most (a2 - a1) / 2 + 1 instructions,
\* also when a2 is at or near the largest address.
C32_DisassAscendsToAddr2 ==
  disass.pc = "loop" /\ disass.printed # -1
    => /\ disass.addr1 <= disass.printed /\ disass.printed <= disass.addr2
       /\ disass.printed < disass.addr

----------------------------------------------------------------------------
(* Who changes a reservation *)

\* The slot after is the slot before, or the slot before with valid_ cleared.
OnlyCleared(before, after) ==
  /\ after.addr_ = before.addr_
  /\ after.size_ = before.size_
  /\ after.valid_ => before.valid_

\* C34: only makeLr(h, ...) validates hart h's reservation or changes its
\* address or size: the operation just done, if it is not h's makeLr, and
\* every write, writeByte, poke, pokeByte, checkWrite and
\* clearLastWriteInfo that could be done now, leave h's reservation as it
\* was or with valid_ cleared; setHartCount leaves every reservation it
\* keeps as it was; and each invalidation done twice is the invalidation
\* done once.
C34_OnlyMakeLrValidates ==
  /\ \A i \in LiveHarts :
       last.op # "none" /\ ~(last.op = "makeLr" /\ last.hart = i)
         => OnlyCleared(pre.res[i], reservations[i])
  /\ \A i \in LiveHarts, h \in LiveHarts, s \in Accesses :
       /\ \A junk \in JunkFor(s.addr, s.size) :
            OnlyCleared(reservations[i],
                        write(Mem, h, s.addr, s.size, Value(s.size), junk).mem.res[i])
       /\ OnlyCleared(reservations[i],
                      writeByte(Mem, h, s.addr, Value(1)).mem.res[i])
       /\ OnlyCleared(reservations[i],
                      poke(Mem, s.addr, s.size, Value(s.size)).mem.res[i])
       /\ OnlyCleared(reservations[i],
                      pokeByte(Mem, s.addr, Value(1)).mem.res[i])
       /\ OnlyCleared(reservations[i],
                      checkWrite(Mem, s.addr, s.size, Value(s.size)).mem.res[i])
       /\ OnlyCleared(reservations[i], clearLastWriteInfo(Mem, h).res[i])
  /\ \A count \in HartCounts :
       \A i \in LiveHarts \cap DOMAIN setHartCount(Mem, count).res :
          setHartCount(Mem, count).res[i] = reservations[i]
  /\ \A h \in LiveHarts :
       /\ invalidateLr(invalidateLr(Mem, h), h) = invalidateLr(Mem, h)
       /\ \A s \in Accesses :
            /\ invalidateOtherHartLr(
                 invalidateOtherHartLr(Mem, h, s.addr, s.size), h, s.addr, s.size)
                 = invalidateOtherHartLr(Mem, h, s.addr, s.size)
            /\ invalidateLrs(invalidateLrs(Mem, s.addr, s.size), s.addr, s.size)
                 = invalidateLrs(Mem, s.addr, s.size)

\* An invalidation by a store has just cleared a hart's reservation, whose
\* address and size are still the reserved ones.
C34_Witness ==
  /\ last.op \in {"invalidateOtherHartLr", "invalidateLrs"}
  /\ \E i \in LiveHarts :
       /\ pre.res[i].valid_ /\ ~reservations[i].valid_
       /\ reservations[i].size_ \in LrSizes
       /\ reservations[i].addr_ # 0

----------------------------------------------------------------------------
(* What a write changes *)

\* The addresses a write of T bytes at a stores to.
Written(a, T) == a .. (a + T - 1)

\* C35: a successful write or writeByte by hart h changes no byte outside
\* [address, address + sizeof(T)), no other hart's last-write slot and no
\* reservation; and whatever the operation just done, a hart's last-write
\* slot that the operation kept differs from what it was only if the
\* operation was that hart's own successful write or writeByte, or its own
\* clearLastWriteInfo.
C35_WriteChangesOwnBytesAndSlot ==
  /\ last.op \in {"write", "writeByte"} /\ last.ok
       => /\ \A x \in DOMAIN data :
               x \notin Written(last.addr, last.size) => data[x] = pre.data[x]
          /\ \A x \in DOMAIN behind :
               x \notin Written(last.addr, last.size) => behind[x] = pre.behind[x]
          /\ \A i \in LiveHarts \ {last.hart} : lastWriteData[i] = pre.lwd[i]
          /\ reservations = pre.res
  /\ \A i \in LiveHarts \cap DOMAIN pre.lwd :
       lastWriteData[i] # pre.lwd[i]
         => /\ last.hart = i
            /\ \/ last.op \in {"write", "writeByte"} /\ last.ok
               \/ last.op = "clearLastWriteInfo"

\* A hart's write has just succeeded where another hart's earlier write left
\* its bytes and its slot: the bytes at the address changed, the other
\* hart's bytes and slot are as they were.
C35_Witness ==
  /\ last.op = "write" /\ last.ok
  /\ \E x \in Written(last.addr, last.size) \cap DOMAIN data :
       data[x] # pre.data[x]
  /\ \E i \in LiveHarts \ {last.hart} :
       /\ pre.lwd[i].size_ # 0
       /\ lastWriteData[i] = pre.lwd[i]
       /\ Written(pre.lwd[i].addr_, pre.lwd[i].size_)
            \cap Written(last.addr, last.size) = {}
       /\ \E x \in Written(pre.lwd[i].addr_, pre.lwd[i].size_) \cap DOMAIN data :
            data[x] # 0 /\ data[x] = pre.data[x]

====
